---- MODULE Spec2Model ----
(***************************************************************************)
(* Model of the margin-analysis pipeline:                                  *)
(*   HoldingDataProcessor.process  (split, per-leg margin, single-side     *)
(*   netting)  ->  MarginOptimizer.run  (per (exchange, account) group:    *)
(*   CFFEX / SHFE netting, or strategy enumeration + MILP),                *)
(* and of the stress engine: MarginCalculator.calc, calc_pnl_margin_r on   *)
(* one leg, and MarginStressTestCombined.run (scenario grid, supplement,   *)
(* simulated paths) on one account.                                        *)
(*                                                                         *)
(* Units.  Money is in whole yuan.  Prices (strike_price, close_price) are *)
(* in 1/1000 of a yuan, so that the ETF strikes 3.0 / 3.1 are integers;    *)
(* margin ratios and shocks are in percent.                                *)
(* Per-unit margins of the market data are multiples of 5, so that the     *)
(* factors 0.2 and 0.8 of the strategy catalog are exact.                  *)
(***************************************************************************)
EXTENDS Integers, Sequences, FiniteSets, TLC

VARIABLES
    pc,                \* "raw" | "normalized" | "renetted" | "running" | "done"
                       \* | "pair" | "analyzed" | the name of the exception raised
    raw,               \* the raw holdings table (one row per position code)
    holding,           \* the normalized per-leg table (HoldingDataProcessor.process)
    groups,            \* MarginOptimizer.run: the (exchange, account) groups still to process
    holding_separated, \* MarginOptimizer.holding_separated (the current group's copy)
    reports,           \* per processed group: legs, avail_strats, x, output rows
    is_close,          \* MarginOptimizer.is_close
    pair,              \* pair analysis: the two legs, is_close and the analysis
    kwargs,            \* the keyword arguments of the call of MarginOptimizer.run
    parse,             \* parse_position_code: the code and the result
    stress,            \* MarginStressTestCombined.run: the inputs and the result
    calc               \* one leg under MarginCalculator.calc and calc_pnl_margin_r

vars == <<pc, raw, holding, groups, holding_separated, reports, is_close, pair, kwargs,
          parse, stress, calc>>

(***************************************************************************)
(* Bounds of the model.                                                    *)
(***************************************************************************)
MaxLegs == 3        \* legs (non-zero position sides) of an account
MaxQty == 2         \* largest gross quantity of a position side
MaxScenarioQty == 3 \* largest gross quantity in the two-contract scenario accounts
MaxStressLegs == 2  \* legs of an account put under stress between the optimizer's steps

(***************************************************************************)
(* Taxonomy (base.py).                                                     *)
(***************************************************************************)
Exchange == {"CFFEX", "SSE", "SZSE", "SHFE", "CZCE", "DCE", "GFEX"}

Future == "Future"
Option == "Option"

\* The DCE inter-commodity pairs among the varieties of the market table.
commodity_pairs == { <<"A", "B">>, <<"A", "M">>, <<"B", "M">>, <<"Y", "P">> }

\* Variety.is_commodity_pair(variety1, variety2, exchange)
is_commodity_pair(variety1, variety2, exchange) ==
    /\ exchange = "DCE"
    /\ \/ <<variety1, variety2>> \in commodity_pairs
       \/ <<variety2, variety1>> \in commodity_pairs

(***************************************************************************)
(* The market table: one row per contract, in the order of the position    *)
(* code (DataLoader.load_holding sorts the holdings by account and code).  *)
(* margin is the per-unit margin MarginCalculator.calc gives a future.     *)
(***************************************************************************)
\* margin_ratio_df: the margin ratio of a variety, in percent (0 for a
\* variety whose formula reads none).
MarginRatio ==
    [variety \in {"A", "AL", "CF", "CU", "IC", "IF", "IO", "M", "RB", "SI", "SR", "ETF"} |->
        CASE variety \in {"A", "AL", "M"} -> 20
          [] variety = "IC" -> 15
          [] variety \in {"CF", "CU", "IF", "IO", "SI", "SR"} -> 10
          [] variety = "RB" -> 8
          [] OTHER -> 0]

\* MarginCalculator.calc_future: close_price * multiplier * margin_ratio,
\* in yuan (the price is in 1/1000 yuan and the ratio in percent).
calc_future(close_price, multiplier, margin_ratio) ==
    ((close_price \div 100) * multiplier * margin_ratio) \div 1000

FutRow(code, exchange, variety, mult, close, ratio) ==
    [code |-> code, exchange |-> exchange, type |-> Future, variety |-> variety,
     option_mark_code |-> "", last_tradedate |-> "", call_put |-> "",
     strike_price |-> 0, multiplier |-> mult, close_price |-> close,
     udl_price |-> 0, delta |-> 0, gamma |-> 0,
     margin_ratio |-> ratio,
     margin |-> calc_future(close, mult, ratio)]

Fut(code, exchange, variety, mult, close) ==
    FutRow(code, exchange, variety, mult, close, MarginRatio[variety])

\* A row of the options data (data_utils.py:119-121): udl_price is in 1/1000
\* yuan, delta in percent and gamma in 1/1000 per yuan.
Opt(code, exchange, variety, udl, date, cp, strike, mult, close, udl_price, delta, gamma) ==
    [code |-> code, exchange |-> exchange, type |-> Option, variety |-> variety,
     option_mark_code |-> udl, last_tradedate |-> date, call_put |-> cp,
     strike_price |-> strike, multiplier |-> mult, close_price |-> close,
     udl_price |-> udl_price, delta |-> delta, gamma |-> gamma,
     margin_ratio |-> MarginRatio[variety]]

Market ==
    << Opt("10005001.SH", "SSE", "ETF", "510050.SH", "2024-01-24", "call", 3000, 10000, 100, 2000, 50, 20000),
       Opt("10005002.SH", "SSE", "ETF", "510050.SH", "2024-01-24", "call", 3100, 10000, 60, 2000, 50, 20000),
       Opt("10005003.SH", "SSE", "ETF", "510050.SH", "2024-01-24", "put", 3000, 10000, 90, 2000, -50, 20000),
       Opt("10005004.SH", "SSE", "ETF", "510050.SH", "2024-01-24", "put", 3100, 10000, 150, 2000, -50, 20000),
       Opt("10005005.SH", "SSE", "ETF", "510050.SH", "2024-02-28", "call", 3000, 10000, 120, 2000, 50, 20000),
       Opt("10005006.SH", "SSE", "ETF", "510050.SH", "2024-01-24", "call", 3500, 10000, 10, 2000, 50, 20000),
       Opt("90002001.SZ", "SZSE", "ETF", "159919.SZ", "2024-01-24", "call", 3000, 10000, 100, 2000, 50, 20000),
       Opt("90002002.SZ", "SZSE", "ETF", "159919.SZ", "2024-01-24", "put", 3000, 10000, 100, 2000, -50, 20000),
       Fut("A2401.DCE", "DCE", "A", 10, 3000000),
       Fut("AL2401.SHF", "SHFE", "AL", 5, 20000000),
       Fut("CF2401.CZC", "CZCE", "CF", 5, 10000000),
       Fut("CU2401.SHF", "SHFE", "CU", 5, 60000000),
       Fut("IC2401.CFE", "CFFEX", "IC", 200, 6000000),
       Fut("IF2401.CFE", "CFFEX", "IF", 300, 5000000),
       Opt("IO2401-C-4000.CFE", "CFFEX", "IO", "000300.SH", "2024-01-19", "call", 4000000, 100, 50000, 4000000, 50, 5),
       Opt("IO2401-P-4000.CFE", "CFFEX", "IO", "000300.SH", "2024-01-19", "put", 4000000, 100, 50000, 4000000, -50, 5),
       Opt("M2401-C-3000.DCE", "DCE", "M", "M2401.DCE", "2023-12-07", "call", 3000000, 10, 100000, 4000000, 50, 5),
       Opt("M2401-C-3100.DCE", "DCE", "M", "M2401.DCE", "2023-12-07", "call", 3100000, 10, 60000, 4000000, 50, 5),
       Opt("M2401-C-4000.DCE", "DCE", "M", "M2401.DCE", "2023-12-07", "call", 4000000, 10, 60000, 4000000, 50, 5),
       Opt("M2401-P-2500.DCE", "DCE", "M", "M2401.DCE", "2023-12-07", "put", 2500000, 10, 60000, 4000000, -50, 5),
       Opt("M2401-P-3000.DCE", "DCE", "M", "M2401.DCE", "2023-12-07", "put", 3000000, 10, 90000, 4000000, -50, 5),
       Opt("M2401-P-3100.DCE", "DCE", "M", "M2401.DCE", "2023-12-07", "put", 3100000, 10, 150000, 4000000, -50, 5),
       Fut("M2401.DCE", "DCE", "M", 10, 4000000),
       Fut("M2405.DCE", "DCE", "M", 10, 4500000),
       Fut("RB2401.DCE", "DCE", "RB", 10, 4000000),
       Opt("SI2401-C-14000.GFE", "GFEX", "SI", "SI2401.GFE", "2023-12-07", "call", 14000000, 5, 200000, 12000000, 50, 4),
       Fut("SI2401.GFE", "GFEX", "SI", 5, 14000000),
       Fut("SR2401.CZC", "CZCE", "SR", 10, 5000000),
       Opt("SR2401C6000.CZC", "CZCE", "SR", "SR2401.CZC", "2023-12-07", "call", 6000000, 10, 100000, 6000000, 50, 4),
       Opt("SR2401P5900.CZC", "CZCE", "SR", "SR2401.CZC", "2023-12-07", "put", 5900000, 10, 60000, 6000000, -50, 4),
       Opt("SR2401P6000.CZC", "CZCE", "SR", "SR2401.CZC", "2023-12-07", "put", 6000000, 10, 100000, 6000000, -50, 4),
       Fut("SR2405.CZC", "CZCE", "SR", 10, 5500000) >>

\* The codes of a table and its row of a code.
CodesOf(table) == { table[k].code : k \in DOMAIN table }
RowOf(table, code) == table[CHOOSE k \in DOMAIN table : table[k].code = code]

Codes == CodesOf(Market)

ContractOf(code) == RowOf(Market, code)

(***************************************************************************)
(* Sequence helpers.                                                       *)
(***************************************************************************)
RECURSIVE SumSeq(_)
SumSeq(s) == IF s = <<>> THEN 0 ELSE Head(s) + SumSeq(Tail(s))

RECURSIVE Concat(_)
Concat(ss) == IF ss = <<>> THEN <<>> ELSE Head(ss) \o Concat(Tail(ss))

\* Faulty variant: the smaller of the two.
Max2_Smaller(a, b) == IF a >= b THEN b ELSE a

Min2(a, b) == IF a <= b THEN a ELSE b

Max2(a, b) == IF a >= b THEN a ELSE b

\* Position codes that parse but have no row in the market data; each comes
\* right after the market code 'after' in the order of the codes;
\* margin_ratio is the ratio of the variety.
Unlisted ==
    << [code |-> "10005009.SH", exchange |-> "SSE", type |-> Option, variety |-> "ETF",
        margin_ratio |-> 0, after |-> "10005006.SH"],
       [code |-> "M2401-C-3200.DCE", exchange |-> "DCE", type |-> Option, variety |-> "M",
        margin_ratio |-> 20, after |-> "M2401-C-3100.DCE"],
       [code |-> "M2409.DCE", exchange |-> "DCE", type |-> Future, variety |-> "M",
        margin_ratio |-> 20, after |-> "M2405.DCE"] >>

UnlistedCodes == CodesOf(Unlisted)

\* The column 'code' of a table.
CodeColumn(table) == [j \in DOMAIN table |-> table[j].code]

\* A table's codes with the unlisted codes at their places.
CodesWithUnlisted(table, unlisted) ==
    Concat([k \in DOMAIN table |->
               <<table[k].code>> \o
               CodeColumn(SelectSeq(unlisted, LAMBDA u : u.after = table[k].code))])

\* All the position codes, in the order of the code (load_holding sorts the
\* holdings by account and code).
CodeSeq == CodesWithUnlisted(Market, Unlisted)

\* The members of a set of codes as a sequence in the order of the code.
SortedCodes(S) == SelectSeq(CodeSeq, LAMBDA c : c \in S)

(***************************************************************************)
(* parse_position_code, data_utils.py.  A code is a sequence of characters *)
(* (strings of length one).                                                *)
(***************************************************************************)
UpperLetters ==
    <<"A", "B", "C", "D", "E", "F", "G", "H", "I", "J", "K", "L", "M",
      "N", "O", "P", "Q", "R", "S", "T", "U", "V", "W", "X", "Y", "Z">>
LowerLetters ==
    <<"a", "b", "c", "d", "e", "f", "g", "h", "i", "j", "k", "l", "m",
      "n", "o", "p", "q", "r", "s", "t", "u", "v", "w", "x", "y", "z">>
DigitChars == {"0", "1", "2", "3", "4", "5", "6", "7", "8", "9"}

\* [0-9]
IsDigit(ch) == ch \in DigitChars

\* [A-Za-z]
IsAlpha(ch) ==
    \E k \in DOMAIN UpperLetters : ch = UpperLetters[k] \/ ch = LowerLetters[k]

\* Faulty variant of str.upper(): the character as it is.
upper_AsIs(ch) == ch

\* str.upper() on one character of the codes' alphabet.
upper(ch) ==
    IF \E k \in DOMAIN LowerLetters : ch = LowerLetters[k]
    THEN UpperLetters[CHOOSE k \in DOMAIN LowerLetters : ch = LowerLetters[k]]
    ELSE ch

\* The aliases of the exchanges in position codes.
ExchangeAliases ==
    << [alias |-> <<"C", "F", "E">>, exchange |-> "CFFEX"],
       [alias |-> <<"C", "C", "F", "X">>, exchange |-> "CFFEX"],
       [alias |-> <<"C", "F", "F", "E", "X">>, exchange |-> "CFFEX"],
       [alias |-> <<"S", "H">>, exchange |-> "SSE"],
       [alias |-> <<"S", "Z">>, exchange |-> "SZSE"],
       [alias |-> <<"S", "H", "F">>, exchange |-> "SHFE"],
       [alias |-> <<"D", "C", "E">>, exchange |-> "DCE"],
       [alias |-> <<"C", "Z", "C">>, exchange |-> "CZCE"],
       [alias |-> <<"G", "F", "E">>, exchange |-> "GFEX"] >>

\* Exchange.from_code(exchange_code): the exchange of a known alias,
\* "UnknownExchange" (the call raises) for any other.
from_code(exchange_code) ==
    IF \E k \in DOMAIN ExchangeAliases : ExchangeAliases[k].alias = exchange_code
    THEN ExchangeAliases[CHOOSE k \in DOMAIN ExchangeAliases :
                            ExchangeAliases[k].alias = exchange_code].exchange
    ELSE "UnknownExchange"

\* [0-9]{n} at position i of s.
DigitsAt(s, i, n) ==
    /\ i + n - 1 <= Len(s)
    /\ \A k \in i..(i + n - 1) : IsDigit(s[k])

\* '.' of a pattern at position i: any character but a newline.
AnyCharAt(s, i) == i <= Len(s) /\ s[i] # "\n"

\* '$' at position i: the end of the string, or just before a newline that
\* ends it.
EndAt(s, i) == i = Len(s) + 1 \/ (i = Len(s) /\ s[i] = "\n")

\* ^[A-Za-z]+ : the length of the longest run of letters s starts with.
LetterRun(s) ==
    CHOOSE k \in 0..Len(s) :
        /\ \A i \in 1..k : IsAlpha(s[i])
        /\ k < Len(s) => ~IsAlpha(s[k + 1])

\* (C|P|-C-|-P-) at position i: the length of the alternative that matches,
\* 0 if none does.
MarkerAt(s, i) ==
    IF i <= Len(s) /\ s[i] \in {"C", "P"} THEN 1
    ELSE IF i + 2 <= Len(s) /\ SubSeq(s, i, i + 2) \in {<<"-", "C", "-">>, <<"-", "P", "-">>}
         THEN 3
    ELSE 0

\* (C|P|-C-|-P-). at position i
MarkerAndCharAt(s, i) == MarkerAt(s, i) > 0 /\ AnyCharAt(s, i + MarkerAt(s, i))

\* The first two characters of s are one of the prefixes.
StartsWith(s, prefixes) == Len(s) >= 2 /\ SubSeq(s, 1, 2) \in prefixes

ParseFailure(error) ==
    [ok |-> FALSE, error |-> error, exchange |-> "", type |-> "", variety |-> <<>>]

Parsed(exchange, type, variety) ==
    [ok |-> TRUE, error |-> "", exchange |-> exchange, type |-> type, variety |-> variety]

\* Lines 160-169: ^(IF|IC|IM|IH)[0-9]{4}$ , else ^(IO|MO|HO)[0-9]{4}.
parse_CFFEX(code, exchange) ==
    IF /\ StartsWith(code, {<<"I", "F">>, <<"I", "C">>, <<"I", "M">>, <<"I", "H">>})
       /\ DigitsAt(code, 3, 4) /\ EndAt(code, 7)
    THEN Parsed(exchange, Future, SubSeq(code, 1, 2))
    ELSE IF /\ StartsWith(code, {<<"I", "O">>, <<"M", "O">>, <<"H", "O">>})
            /\ DigitsAt(code, 3, 4) /\ AnyCharAt(code, 7)
         THEN Parsed(exchange, Option, SubSeq(code, 1, 2))
    ELSE ParseFailure("ValueError")

\* Lines 170-175: ^[0-9]{8}$ or ^[0-9]{6}(C|P|-C-|-P-).
parse_ETF(code, exchange) ==
    IF \/ DigitsAt(code, 1, 8) /\ EndAt(code, 9)
       \/ DigitsAt(code, 1, 6) /\ MarkerAndCharAt(code, 7)
    THEN Parsed(exchange, Option, <<"E", "T", "F">>)
    ELSE ParseFailure("ValueError")

\* Lines 176-185: ^([A-Za-z]+)[0-9]{4}$ , else
\* ^([A-Za-z]+)[0-9]{4}(C|P|-C-|-P-).
parse_commodity(code, exchange) ==
    LET k == LetterRun(code)
        variety == [i \in 1..k |-> upper(code[i])]
    IN  IF k >= 1 /\ DigitsAt(code, k + 1, 4) /\ EndAt(code, k + 5)
        THEN Parsed(exchange, Future, variety)
        ELSE IF k >= 1 /\ DigitsAt(code, k + 1, 4) /\ MarkerAndCharAt(code, k + 5)
             THEN Parsed(exchange, Option, variety)
        ELSE ParseFailure("ValueError")

\* parse_position_code(code): code.split('.') must give two parts (line
\* 152), the alias must be known to Exchange.from_code (line 156), and the
\* symbol must match a pattern of the exchange (lines 160-188).
parse_position_code(code) ==
    LET dots == { i \in DOMAIN code : code[i] = "." }
        d == CHOOSE i \in dots : TRUE
        symbol == SubSeq(code, 1, d - 1)
        exchange == from_code(SubSeq(code, d + 1, Len(code)))
    IN  IF Cardinality(dots) # 1 THEN ParseFailure("ValueError")
        ELSE IF exchange = "UnknownExchange" THEN ParseFailure("UnknownExchange")
        ELSE IF exchange = "CFFEX" THEN parse_CFFEX(symbol, exchange)
        ELSE IF exchange \in {"SSE", "SZSE"} THEN parse_ETF(symbol, exchange)
        ELSE parse_commodity(symbol, exchange)

(***************************************************************************)
(* HoldingDataProcessor.process, data_utils.py.                            *)
(*                                                                         *)
(* A raw row is [code, long_qty, short_qty]; the short gross quantity is   *)
(* non-positive in the source data.  A leg carries the market fields of    *)
(* its contract, code_dir (code + '.L' / '.S', modelled as the pair        *)
(* <<code, "L">> / <<code, "S">>), long_short, quantity, margin and        *)
(* total_margin.                                                           *)
(***************************************************************************)

\* The listing of a code: its market row, or for a code the market data
\* lacks what its parse gives.
Listing(code, listed) ==
    [listed |-> listed,
     row |-> IF listed THEN ContractOf(code) ELSE RowOf(Unlisted, code)]

\* Lines 55-56: exchange, type and variety parsed from the code.
ParsedFields(row) == [exchange |-> row.exchange, type |-> row.type, variety |-> row.variety]

ParsedOf(code) == ParsedFields(Listing(code, code \in Codes).row)

\* pd.merge(holding, data, on='code', how='left'): the market fields of the
\* code, NaN where the market data has no row for it.
MergedFields(code, listing) ==
    IF listing.listed THEN listing.row
    ELSE [code |-> code, exchange |-> listing.row.exchange, type |-> listing.row.type,
          variety |-> listing.row.variety,
          option_mark_code |-> "NaN", last_tradedate |-> "NaN", call_put |-> "NaN",
          strike_price |-> "NaN", multiplier |-> "NaN", close_price |-> "NaN",
          udl_price |-> "NaN", delta |-> "NaN", gamma |-> "NaN",
          margin_ratio |-> listing.row.margin_ratio]

Merged(code) == MergedFields(code, Listing(code, code \in Codes))

\* MarginCalculator.__init__ copies pos.dropna(): a position whose market
\* fields are NaN has no attribute close_price, udl_price, ...
HasMarketFields(pos) == pos.code \in Codes

\* An amount per unit of the underlying, in 1/100000 yuan, times the
\* multiplier, in yuan.
PerUnit(amount, multiplier) == ((amount \div 10) * multiplier) \div 10000

\* Faulty variant of lines 57-61: the put of SSE and SZSE without the cap
\* at the strike.
calc_option_NoCap(pos) ==
    IF pos.long_short = "long" THEN 0
    ELSE
        LET otm == IF pos.call_put = "call"
                   THEN Max2(pos.strike_price - pos.udl_price, 0)
                   ELSE Max2(pos.udl_price - pos.strike_price, 0)
            udl_margin == pos.udl_price * pos.margin_ratio
        IN  IF pos.exchange \in {"SSE", "SZSE"}
            THEN PerUnit(100 * pos.close_price
                           + Max2(12 * pos.udl_price - 100 * otm,
                                  7 * (IF pos.call_put = "call"
                                       THEN pos.udl_price ELSE pos.strike_price)),
                         pos.multiplier)
            ELSE IF pos.exchange = "CFFEX"
            THEN PerUnit(100 * pos.close_price
                           + Max2(udl_margin - 100 * otm,
                                  ((IF pos.call_put = "call"
                                    THEN pos.udl_price ELSE pos.strike_price)
                                   * pos.margin_ratio) \div 2),
                         pos.multiplier)
            ELSE PerUnit(100 * pos.close_price + udl_margin
                           - Min2(100 * otm, udl_margin) \div 2,
                         pos.multiplier)

\* MarginCalculator.calc_option (margin_utils.py:43-77), amounts per unit in
\* 1/100000 yuan: 100 * a price, or a percentage times a price.
calc_option(pos) ==
    IF pos.long_short = "long" THEN 0
    ELSE
        LET otm == IF pos.call_put = "call"
                   THEN Max2(pos.strike_price - pos.udl_price, 0)
                   ELSE Max2(pos.udl_price - pos.strike_price, 0)
            udl_margin == pos.udl_price * pos.margin_ratio
        IN  IF pos.exchange \in {"SSE", "SZSE"}
            THEN IF pos.call_put = "call"
                 THEN PerUnit(100 * pos.close_price
                                + Max2(12 * pos.udl_price - 100 * otm, 7 * pos.udl_price),
                              pos.multiplier)
                 ELSE PerUnit(Min2(100 * pos.close_price
                                     + Max2(12 * pos.udl_price - 100 * otm,
                                            7 * pos.strike_price),
                                   100 * pos.strike_price),
                              pos.multiplier)
            ELSE IF pos.exchange = "CFFEX"
            THEN IF pos.call_put = "call"
                 THEN PerUnit(100 * pos.close_price
                                + Max2(udl_margin - 100 * otm, udl_margin \div 2),
                              pos.multiplier)
                 ELSE PerUnit(100 * pos.close_price
                                + Max2(udl_margin - 100 * otm,
                                       (pos.strike_price * pos.margin_ratio) \div 2),
                              pos.multiplier)
            ELSE PerUnit(100 * pos.close_price + udl_margin
                           - Min2(100 * otm, udl_margin) \div 2,
                         pos.multiplier)

\* MarginCalculator(pos).calc(): a future's margin or an option's, 0.0 for
\* a long option (returned before any market field is read);
\* AttributeError when the formula reads a field the position does not have.
calc_with(pos, has_fields) ==
    IF pos.type = Future
    THEN IF has_fields
         THEN [error |-> "",
               margin |-> calc_future(pos.close_price, pos.multiplier, pos.margin_ratio)]
         ELSE [error |-> "AttributeError", margin |-> 0]
    ELSE IF pos.long_short = "long" \/ has_fields
         THEN [error |-> "", margin |-> calc_option(pos)]
         ELSE [error |-> "AttributeError", margin |-> 0]

MarginCalculator_calc(pos) == calc_with(pos, HasMarketFields(pos))

\* Faulty variant of lines 71 and 75-76: the short quantity keeps its sign.
LegQuantity_Signed(row, side) == IF side = "long" THEN row.long_qty ELSE row.short_qty

\* Lines 71 and 75-76: the gross quantity of the side renamed to quantity,
\* multiplied by -1 on the short side.
LegQuantity(row, side) == IF side = "long" THEN row.long_qty ELSE row.short_qty * (-1)

\* A split row: the contract's fields plus side and quantity (lines 69-77).
\* option_mark_code is the market table's column of that name, the
\* underlying of an option: _merge_options_data hands it over under the
\* name 'udl' (line 135) while strategy.py reads 'option_mark_code'; the leg
\* carries it under the name the catalog reads.
SplitFields(c, row, side) ==
    [code |-> c.code, exchange |-> c.exchange, type |-> c.type,
     variety |-> c.variety, option_mark_code |-> c.option_mark_code,
     last_tradedate |-> c.last_tradedate, call_put |-> c.call_put,
     strike_price |-> c.strike_price, multiplier |-> c.multiplier,
     close_price |-> c.close_price, udl_price |-> c.udl_price,
     delta |-> c.delta, gamma |-> c.gamma, margin_ratio |-> c.margin_ratio,
     code_dir |-> <<c.code, IF side = "long" THEN "L" ELSE "S">>,
     long_short |-> side,
     quantity |-> LegQuantity(row, side)]

SplitRow(row, side) == SplitFields(Merged(row.code), row, side)

\* Lines 59-66: the rows of one position type.
RowsOfType(rows, type) == SelectSeq(rows, LAMBDA r : ParsedOf(r.code).type = type)

\* Lines 69-77: the legs of one side, of the rows that hold it.
SideLegs(rows, side) == [i \in DOMAIN rows |-> SplitRow(rows[i], side)]

HeldOn(row, side) == IF side = "long" THEN row.long_qty > 0 ELSE row.short_qty < 0

SplitSides(merged) ==
    Concat([k \in 1..2 |->
               SideLegs(SelectSeq(merged, LAMBDA r : HeldOn(r, <<"long", "short">>[k])),
                        <<"long", "short">>[k])])

\* Lines 59-79: futures rows before option rows, long legs before short legs.
Split(rows) ==
    SplitSides(Concat([k \in 1..2 |-> RowsOfType(rows, <<Future, Option>>[k])]))

\* Lines 84-86: margin and total_margin of a leg.
WithMarginOf(pos, m) ==
    [code |-> pos.code, exchange |-> pos.exchange, type |-> pos.type,
     variety |-> pos.variety, option_mark_code |-> pos.option_mark_code,
     last_tradedate |-> pos.last_tradedate, call_put |-> pos.call_put,
     strike_price |-> pos.strike_price, multiplier |-> pos.multiplier,
     close_price |-> pos.close_price, udl_price |-> pos.udl_price,
     delta |-> pos.delta, gamma |-> pos.gamma, margin_ratio |-> pos.margin_ratio,
     code_dir |-> pos.code_dir,
     long_short |-> pos.long_short, quantity |-> pos.quantity,
     margin |-> m, total_margin |-> m * pos.quantity]

WithMargin(pos) == WithMarginOf(pos, MarginCalculator_calc(pos).margin)

WithMargins(legs) == [i \in DOMAIN legs |-> WithMargin(legs[i])]

\* Lines 59-87: the legs with their margins.
SplitAndMargin(rows) == WithMargins(Split(rows))

\* The exception process() raises, "" if none: pd.concat raises ValueError
\* on an empty list (line 66: no futures row and no option row; line 79: no
\* long leg and no short leg), and MarginCalculator raises on the first
\* leg whose formula reads a missing field (line 84).
raises_on(rows, legs) ==
    IF rows = <<>> THEN "ValueError"
    ELSE IF legs = <<>> THEN "ValueError"
    ELSE IF \E i \in DOMAIN legs : MarginCalculator_calc(legs[i]).error # ""
         THEN "AttributeError"
    ELSE ""

process_raises(rows) == raises_on(rows, Split(rows))

(***************************************************************************)
(* Single-side netting, margin_utils.py.                                   *)
(***************************************************************************)

\* Faulty variant of idxmax: the first key present, whatever the sums.
larger_side_FirstKey(rows) ==
    IF SelectSeq(rows, LAMBDA p : p.long_short = "long") = <<>> THEN "short" ELSE "long"

\* df.groupby('long_short')['total_margin'].sum().idxmax(): the keys
\* present are sorted ('long' before 'short') and idxmax returns the first
\* maximum.
larger_side(rows) ==
    LET longs  == SelectSeq(rows, LAMBDA p : p.long_short = "long")
        shorts == SelectSeq(rows, LAMBDA p : p.long_short = "short")
        sum_long  == SumSeq([i \in DOMAIN longs  |-> longs[i].total_margin])
        sum_short == SumSeq([i \in DOMAIN shorts |-> shorts[i].total_margin])
    IN  IF shorts = <<>> THEN "long"
        ELSE IF longs = <<>> THEN "short"
        ELSE IF sum_long >= sum_short THEN "long" ELSE "short"

\* holding_account.loc[mask, ['margin', 'total_margin']] = 0
ZeroMargins(pos) == [pos EXCEPT !.margin = 0, !.total_margin = 0]

\* Faulty variant of the CFFEX branch: the short side wins an exact tie.
NetCFFEX_TieShort(holding_account) ==
    LET holding_futures == SelectSeq(holding_account, LAMBDA p : p.type = Future)
        longs  == SelectSeq(holding_futures, LAMBDA p : p.long_short = "long")
        shorts == SelectSeq(holding_futures, LAMBDA p : p.long_short = "short")
        sum_long  == SumSeq([i \in DOMAIN longs  |-> longs[i].total_margin])
        sum_short == SumSeq([i \in DOMAIN shorts |-> shorts[i].total_margin])
        side == IF shorts = <<>> THEN "long"
                ELSE IF longs = <<>> THEN "short"
                ELSE IF sum_long > sum_short THEN "long" ELSE "short"
    IN  [i \in DOMAIN holding_account |->
            IF holding_account[i].type = Future /\ holding_account[i].long_short # side
            THEN ZeroMargins(holding_account[i])
            ELSE holding_account[i]]

\* The CFFEX branch (lines 118-125): one kept side over all futures legs.
NetCFFEX(holding_account) ==
    LET holding_futures == SelectSeq(holding_account, LAMBDA p : p.type = Future)
        side == larger_side(holding_futures)
    IN  [i \in DOMAIN holding_account |->
            IF holding_account[i].type = Future /\ holding_account[i].long_short # side
            THEN ZeroMargins(holding_account[i])
            ELSE holding_account[i]]

\* The kept side of one variety (line 129).
SideOfVariety(holding_account, variety) ==
    larger_side(SelectSeq(holding_account,
                          LAMBDA p : p.type = Future /\ p.variety = variety))

\* Faulty variant of the SHFE branch: one kept side for all the varieties.
NetSHFE_AllVarieties(holding_account) ==
    LET holding_futures == SelectSeq(holding_account, LAMBDA p : p.type = Future)
        side == larger_side(holding_futures)
    IN  [i \in DOMAIN holding_account |->
            IF holding_account[i].type = Future /\ holding_account[i].long_short # side
            THEN ZeroMargins(holding_account[i])
            ELSE holding_account[i]]

\* The SHFE branch (lines 126-135): one kept side per variety.
NetSHFE(holding_account) ==
    [i \in DOMAIN holding_account |->
        IF /\ holding_account[i].type = Future
           /\ holding_account[i].long_short #
                  SideOfVariety(holding_account, holding_account[i].variety)
        THEN ZeroMargins(holding_account[i])
        ELSE holding_account[i]]

\* process_larger_side_margin(holding_account); the account's exchange is
\* the exchange of its first row.
process_larger_side_margin(holding_account) ==
    LET exchange == holding_account[1].exchange
    IN  IF exchange \notin {"CFFEX", "SHFE"} THEN holding_account
        ELSE IF SelectSeq(holding_account, LAMBDA p : p.type = Future) = <<>>
             THEN holding_account
        ELSE IF exchange = "CFFEX" THEN NetCFFEX(holding_account)
        ELSE NetSHFE(holding_account)

\* HoldingDataProcessor.process(): all the legs belong to one account, so
\* the loop over holding.groupby('account') has one iteration.
process(rows) == process_larger_side_margin(SplitAndMargin(rows))

(***************************************************************************)
(* The strategy catalog, strategy.py.                                      *)
(***************************************************************************)

\* 1 / 1e-6, the tolerance of the strike and margin comparisons.
EpsInv == 1000000

\* d > 1e-6, d < -1e-6 and |d| < 1e-6 for a difference d of two prices,
\* which is a whole number of 1/1000 (d / 1000 > 1 / EpsInv).
PriceGtEps(d) == d > 1000 \div EpsInv
PriceLtNegEps(d) == d * (-1) > 1000 \div EpsInv
PriceAbsLtEps(d) ==
    (IF d >= 0 THEN d ELSE d * (-1)) < (1000 + EpsInv - 1) \div EpsInv

\* d > 1e-6 and d < -1e-6 for a difference d of two margins in whole yuan.
MoneyGtEps(d) == d > 1 \div EpsInv
MoneyLtNegEps(d) == d * (-1) > 1 \div EpsInv

\* price * multiplier in yuan, for a price in 1/1000.
PriceTimes(price, multiplier) == (price * multiplier) \div 1000

\* FuturesStrategy.modify_positions
FuturesStrategy_modify_positions(pos1, pos2) == <<pos1, pos2>>

\* Faulty variant of OptionsStrategy.modify_positions: a short leg given
\* first stays first.
OptionsStrategy_modify_positions_ShortFirst(pos1, pos2) ==
    IF /\ pos1.long_short = pos2.long_short
       /\ pos1.call_put = "call"
       /\ pos2.call_put = "put"
    THEN <<pos2, pos1>>
    ELSE <<pos1, pos2>>

\* OptionsStrategy.modify_positions
OptionsStrategy_modify_positions(pos1, pos2) ==
    IF pos1.long_short = "short" /\ pos2.long_short = "long"
    THEN <<pos2, pos1>>
    ELSE IF /\ pos1.long_short = pos2.long_short
            /\ pos1.call_put = "call"
            /\ pos2.call_put = "put"
    THEN <<pos2, pos1>>
    ELSE <<pos1, pos2>>

\* FutureOptionStrategy.modify_positions
FutureOptionStrategy_modify_positions(pos1, pos2) ==
    IF pos1.type = Option THEN <<pos2, pos1>> ELSE <<pos1, pos2>>

FutureLockPosition_is_valid(pos1, pos2, close) ==
    /\ pos1.code = pos2.code
    /\ pos1.long_short # pos2.long_short
    /\ pos1.exchange \in {"CZCE", "DCE", "GFEX"}

\* Faulty variant of CalendarSpread.is_valid: the test pos1.code # pos2.code
\* is missing.
CalendarSpread_is_valid_AnyCode(pos1, pos2, close) ==
    /\ pos1.variety = pos2.variety
    /\ pos1.long_short # pos2.long_short
    /\ pos1.exchange \in {"CZCE", "DCE", "GFEX"}

CalendarSpread_is_valid(pos1, pos2, close) ==
    /\ pos1.variety = pos2.variety
    /\ pos1.code # pos2.code
    /\ pos1.long_short # pos2.long_short
    /\ pos1.exchange \in {"CZCE", "DCE", "GFEX"}

InterCommoditySpread_is_valid(pos1, pos2, close) ==
    /\ is_commodity_pair(pos1.variety, pos2.variety, pos1.exchange)
    /\ pos1.long_short # pos2.long_short
    /\ pos1.exchange \in {"CZCE", "DCE"}

\* Faulty variant of line 147: the strikes compared the other way round.
BullCallSpread_is_valid_StrikeAbove(pos1, pos2, close) ==
    /\ pos1.option_mark_code = pos2.option_mark_code
    /\ pos1.last_tradedate = pos2.last_tradedate
    /\ pos1.long_short # pos2.long_short
    /\ pos1.call_put = "call"
    /\ pos2.call_put = "call"
    /\ PriceGtEps(pos1.strike_price - pos2.strike_price)
    /\ pos1.exchange \in {"SSE", "SZSE", "DCE", "GFEX"}

BullCallSpread_is_valid(pos1, pos2, close) ==
    /\ pos1.option_mark_code = pos2.option_mark_code
    /\ pos1.last_tradedate = pos2.last_tradedate
    /\ pos1.long_short # pos2.long_short
    /\ pos1.call_put = "call"
    /\ pos2.call_put = "call"
    /\ PriceLtNegEps(pos1.strike_price - pos2.strike_price)
    /\ pos1.exchange \in {"SSE", "SZSE", "DCE", "GFEX"}

BearCallSpread_is_valid(pos1, pos2, close) ==
    /\ pos1.option_mark_code = pos2.option_mark_code
    /\ pos1.last_tradedate = pos2.last_tradedate
    /\ pos1.long_short # pos2.long_short
    /\ pos1.call_put = "call"
    /\ pos2.call_put = "call"
    /\ PriceGtEps(pos1.strike_price - pos2.strike_price)
    /\ pos1.exchange \in {"SSE", "SZSE", "DCE", "GFEX"}

BullPutSpread_is_valid(pos1, pos2, close) ==
    /\ pos1.option_mark_code = pos2.option_mark_code
    /\ pos1.last_tradedate = pos2.last_tradedate
    /\ pos1.long_short # pos2.long_short
    /\ pos1.call_put = "put"
    /\ pos2.call_put = "put"
    /\ PriceLtNegEps(pos1.strike_price - pos2.strike_price)
    /\ pos1.exchange \in {"SSE", "SZSE", "DCE", "GFEX"}

BearPutSpread_is_valid(pos1, pos2, close) ==
    /\ pos1.option_mark_code = pos2.option_mark_code
    /\ pos1.last_tradedate = pos2.last_tradedate
    /\ pos1.long_short # pos2.long_short
    /\ pos1.call_put = "put"
    /\ pos2.call_put = "put"
    /\ PriceGtEps(pos1.strike_price - pos2.strike_price)
    /\ pos1.exchange \in {"SSE", "SZSE", "DCE", "GFEX"}

Straddle_is_valid(pos1, pos2, close) ==
    /\ pos1.option_mark_code = pos2.option_mark_code
    /\ pos1.last_tradedate = pos2.last_tradedate
    /\ pos1.long_short = "short"
    /\ pos2.long_short = "short"
    /\ pos1.call_put # pos2.call_put
    /\ PriceAbsLtEps(pos1.strike_price - pos2.strike_price)
    /\ pos1.exchange \in {"SSE", "SZSE", "CZCE", "DCE", "GFEX"}

Strangle_is_valid(pos1, pos2, close) ==
    /\ pos1.option_mark_code = pos2.option_mark_code
    /\ pos1.last_tradedate = pos2.last_tradedate
    /\ pos1.long_short = "short"
    /\ pos2.long_short = "short"
    /\ pos1.call_put # pos2.call_put
    /\ PriceLtNegEps(pos1.strike_price - pos2.strike_price)
    /\ pos1.exchange \in {"SSE", "SZSE", "CZCE", "DCE", "GFEX"}

OptionLockPosition_is_valid(pos1, pos2, close) ==
    /\ pos1.code = pos2.code
    /\ pos1.long_short # pos2.long_short
    /\ pos1.exchange \in {"DCE", "GFEX"}

AutoHedging_is_valid(pos1, pos2, close) ==
    /\ pos1.code = pos2.code
    /\ pos1.long_short # pos2.long_short
    /\ pos1.exchange \in {"SSE", "SZSE"}
    /\ close

CoveredCall_is_valid(pos1, pos2, close) ==
    /\ pos1.code = pos2.option_mark_code
    /\ pos1.long_short = "long"
    /\ pos2.long_short = "short"
    /\ pos2.call_put = "call"
    /\ pos1.exchange \in {"DCE", "GFEX"}

CoveredPut_is_valid(pos1, pos2, close) ==
    /\ pos1.code = pos2.option_mark_code
    /\ pos1.long_short = "short"
    /\ pos2.long_short = "short"
    /\ pos2.call_put = "put"
    /\ pos1.exchange \in {"DCE", "GFEX"}

ProtectiveCall_is_valid(pos1, pos2, close) ==
    /\ pos1.code = pos2.option_mark_code
    /\ pos1.long_short = "short"
    /\ pos2.long_short = "long"
    /\ pos2.call_put = "call"
    /\ pos1.exchange = "DCE"

ProtectivePut_is_valid(pos1, pos2, close) ==
    /\ pos1.code = pos2.option_mark_code
    /\ pos1.long_short = "long"
    /\ pos2.long_short = "long"
    /\ pos2.call_put = "put"
    /\ pos1.exchange = "DCE"

\* strategy.is_valid(pos1, pos2, is_close) of the class named variant.
is_valid(variant, pos1, pos2, close) ==
    CASE variant = "FutureLockPosition"   -> FutureLockPosition_is_valid(pos1, pos2, close)
      [] variant = "CalendarSpread"       -> CalendarSpread_is_valid(pos1, pos2, close)
      [] variant = "InterCommoditySpread" -> InterCommoditySpread_is_valid(pos1, pos2, close)
      [] variant = "BullCallSpread"       -> BullCallSpread_is_valid(pos1, pos2, close)
      [] variant = "BearCallSpread"       -> BearCallSpread_is_valid(pos1, pos2, close)
      [] variant = "BullPutSpread"        -> BullPutSpread_is_valid(pos1, pos2, close)
      [] variant = "BearPutSpread"        -> BearPutSpread_is_valid(pos1, pos2, close)
      [] variant = "Straddle"             -> Straddle_is_valid(pos1, pos2, close)
      [] variant = "Strangle"             -> Strangle_is_valid(pos1, pos2, close)
      [] variant = "OptionLockPosition"   -> OptionLockPosition_is_valid(pos1, pos2, close)
      [] variant = "AutoHedging"          -> AutoHedging_is_valid(pos1, pos2, close)
      [] variant = "CoveredCall"          -> CoveredCall_is_valid(pos1, pos2, close)
      [] variant = "CoveredPut"           -> CoveredPut_is_valid(pos1, pos2, close)
      [] variant = "ProtectiveCall"       -> ProtectiveCall_is_valid(pos1, pos2, close)
      [] variant = "ProtectivePut"        -> ProtectivePut_is_valid(pos1, pos2, close)

\* Straddle.calc_margin
Straddle_calc_margin(pos1, pos2) ==
    LET first_higher ==
            IF MoneyGtEps(pos1.margin - pos2.margin) THEN TRUE
            ELSE IF MoneyLtNegEps(pos1.margin - pos2.margin) THEN FALSE
            ELSE PriceGtEps(pos1.close_price - pos2.close_price)
        pos_higher == IF first_higher THEN pos1 ELSE pos2
        pos_lower  == IF first_higher THEN pos2 ELSE pos1
    IN  pos_higher.margin + PriceTimes(pos_lower.close_price, pos_lower.multiplier)

\* strategy.margin of the class named variant: the combined margin.
combined_margin(variant, pos1, pos2) ==
    CASE variant \in {"FutureLockPosition", "CalendarSpread", "InterCommoditySpread"} ->
            Max2(pos1.margin, pos2.margin)
      [] variant \in {"BullCallSpread", "BearPutSpread"} ->
            IF pos1.exchange \in {"SSE", "SZSE"} THEN 0
            ELSE (pos2.margin * 2) \div 10
      [] variant = "BearCallSpread" ->
            PriceTimes(pos1.strike_price - pos2.strike_price, pos1.multiplier)
      [] variant = "BullPutSpread" ->
            PriceTimes(pos2.strike_price - pos1.strike_price, pos2.multiplier)
      [] variant \in {"Straddle", "Strangle"} -> Straddle_calc_margin(pos1, pos2)
      [] variant = "OptionLockPosition" -> (pos2.margin * 2) \div 10
      [] variant = "AutoHedging" -> 0
      [] variant \in {"CoveredCall", "CoveredPut"} ->
            pos1.margin + PriceTimes(pos2.close_price, pos2.multiplier)
      [] variant \in {"ProtectiveCall", "ProtectivePut"} -> (pos1.margin * 8) \div 10

\* Strategy.margin_saving
margin_saving(variant, pos1, pos2) ==
    pos1.margin + pos2.margin - combined_margin(variant, pos1, pos2)

\* The families: Family.__subclasses__(), in the order of definition.
FuturesStrategy_subclasses ==
    <<"FutureLockPosition", "CalendarSpread", "InterCommoditySpread">>
OptionsStrategy_subclasses ==
    <<"BullCallSpread", "BearCallSpread", "BullPutSpread", "BearPutSpread",
      "Straddle", "Strangle", "OptionLockPosition", "AutoHedging">>
FutureOptionStrategy_subclasses ==
    <<"CoveredCall", "CoveredPut", "ProtectiveCall", "ProtectivePut">>

\* StrategyAnalyzerFactory.create: the family of a pair of legs.
FamilyOf(pos1, pos2) ==
    IF pos1.type = Future /\ pos2.type = Future THEN "Futures"
    ELSE IF pos1.type = Option /\ pos2.type = Option THEN "Options"
    ELSE "FutureOption"

subclasses(family) ==
    CASE family = "Futures" -> FuturesStrategy_subclasses
      [] family = "Options" -> OptionsStrategy_subclasses
      [] family = "FutureOption" -> FutureOptionStrategy_subclasses

modify_positions(family, pos1, pos2) ==
    CASE family = "Futures" -> FuturesStrategy_modify_positions(pos1, pos2)
      [] family = "Options" -> OptionsStrategy_modify_positions(pos1, pos2)
      [] family = "FutureOption" -> FutureOptionStrategy_modify_positions(pos1, pos2)

\* The variants of the family whose predicate holds of the ordered pair.
ValidVariants(family, pos1, pos2, close) ==
    { i \in DOMAIN subclasses(family) :
          is_valid(subclasses(family)[i], pos1, pos2, close) }

NoStrategy ==
    [type |-> "None", margin |-> 0, margin_saving |-> 0, pos1 |-> <<>>, pos2 |-> <<>>]

\* Strategy.__init__(pos1, pos2): the constructor normalizes the pair again.
Strategy(variant, family, pos1, pos2) ==
    LET p == modify_positions(family, pos1, pos2)
    IN  [type |-> variant,
         margin |-> combined_margin(variant, p[1], p[2]),
         margin_saving |-> margin_saving(variant, p[1], p[2]),
         pos1 |-> p[1].code_dir, pos2 |-> p[2].code_dir]

\* analyzer.analyze(): normalize, then the first valid class of the family.
analyze(pos1, pos2, close) ==
    LET family == FamilyOf(pos1, pos2)
        p == modify_positions(family, pos1, pos2)
        valid == ValidVariants(family, p[1], p[2], close)
    IN  IF valid = {} THEN NoStrategy
        ELSE LET first == CHOOSE i \in valid : \A j \in valid : i <= j
             IN  Strategy(subclasses(family)[first], family, p[1], p[2])

(***************************************************************************)
(* MarginOptimizer, margin_optimizer.py.                                   *)
(*                                                                         *)
(* An output row is [code_dir, type, quantity, margin]: code_dir is the    *)
(* one-element sequence of a leg's code_dir for a leg row and the pair of  *)
(* the two legs' code_dir for a strategy row.                              *)
(***************************************************************************)

\* self.holding_separated[['code_dir', 'type', 'quantity', 'margin']]
LegRows(legs) ==
    [i \in DOMAIN legs |->
        [code_dir |-> <<legs[i].code_dir>>, type |-> legs[i].type,
         quantity |-> legs[i].quantity, margin |-> legs[i].margin]]

\* Faulty variant of line 46: no filter on margin_saving.
SavingFilter_None(analysis) == TRUE

\* Line 46: temp[temp['margin_saving'] > 0]
SavingFilter(analysis) == analysis.margin_saving > 0

\* _find_available_strategies: for every anchor i and every later leg j,
\* the analysis of (legs[i], legs[j]) if there is one and it passes line 46.
find_available_strategies(legs, close) ==
    LET n == Len(legs)
        Found(i) ==
            LET cand == [k \in 1..(n - i) |->
                            LET a == analyze(legs[i], legs[i + k], close)
                            IN  [code_dir |-> <<legs[i].code_dir, legs[i + k].code_dir>>,
                                 type |-> a.type, margin |-> a.margin,
                                 margin_saving |-> a.margin_saving]]
            IN  SelectSeq(cand, LAMBDA r : r.type # "None" /\ SavingFilter(r))
    IN  IF n <= 1 THEN <<>> ELSE Concat([i \in 1..(n - 1) |-> Found(i)])

\* Lines 73-74: index[code_dir == pos][0], the first leg with that code_dir.
IndexOf(legs, code_dir) ==
    CHOOSE i \in DOMAIN legs :
        /\ legs[i].code_dir = code_dir
        /\ \A k \in DOMAIN legs : legs[k].code_dir = code_dir => i <= k

\* Faulty variant of lines 71-76: only the first leg of a strategy is marked.
IncidenceMatrix_FirstLegOnly(legs, avail_strats) ==
    [i \in DOMAIN legs |->
        [j \in DOMAIN avail_strats |->
            IF i = IndexOf(legs, avail_strats[j].code_dir[1]) THEN 1 ELSE 0]]

\* Lines 71-76: the |legs| x |strategies| incidence matrix A.
IncidenceMatrix(legs, avail_strats) ==
    [i \in DOMAIN legs |->
        [j \in DOMAIN avail_strats |->
            IF \/ i = IndexOf(legs, avail_strats[j].code_dir[1])
               \/ i = IndexOf(legs, avail_strats[j].code_dir[2])
            THEN 1 ELSE 0]]

Dot(u, v) == SumSeq([j \in DOMAIN u |-> u[j] * v[j]])

SeqMax(s) == IF s = <<>> THEN 0 ELSE CHOOSE m \in {s[i] : i \in DOMAIN s} :
                                       \A i \in DOMAIN s : s[i] <= m

\* Faulty variant of line 79: the savings are handed over without the sign.
Objective_Unsigned(c) == c

\* The objective handed to the solver, which minimizes it (line 79: c = -c).
Objective(c) == [j \in DOMAIN c |-> c[j] * (-1)]

\* scipy.optimize.milp(c, constraints = LinearConstraint(A, lb, ub),
\* integrality = 1) with its default bounds x >= 0: the integer vectors
\* with lb <= A x <= ub that minimize c . x.  Every column of A has a 1, so
\* no component can exceed the largest ub.
milp(c, A, lb, ub) ==
    LET n == Len(c)
        feasible == { x \in [1..n -> 0..SeqMax(ub)] :
                        \A i \in DOMAIN A : /\ lb[i] <= Dot(A[i], x)
                                            /\ Dot(A[i], x) <= ub[i] }
        best == CHOOSE v \in { Dot(c, x) : x \in feasible } :
                    \A x \in feasible : v <= Dot(c, x)
    IN  { x \in feasible : Dot(c, x) = best }

\* Faulty variant of lines 82-89: the legs keep their whole quantity.
OptimizeRows_NoDeduct(legs, avail_strats, A, x) ==
    LET selected == [j \in DOMAIN avail_strats |->
                        [code_dir |-> avail_strats[j].code_dir,
                         type |-> avail_strats[j].type,
                         quantity |-> x[j],
                         margin |-> avail_strats[j].margin]]
    IN  SelectSeq(LegRows(legs), LAMBDA r : r.quantity > 0)
            \o SelectSeq(selected, LAMBDA r : r.quantity > 0)

\* Lines 82-89: remaining legs (quantity > 0) followed by the selected
\* strategies (quantity > 0).
OptimizeRows(legs, avail_strats, A, x) ==
    LET selected == [j \in DOMAIN avail_strats |->
                        [code_dir |-> avail_strats[j].code_dir,
                         type |-> avail_strats[j].type,
                         quantity |-> x[j],
                         margin |-> avail_strats[j].margin]]
        remaining == [i \in DOMAIN legs |->
                        [code_dir |-> <<legs[i].code_dir>>, type |-> legs[i].type,
                         quantity |-> legs[i].quantity - Dot(A[i], x),
                         margin |-> legs[i].margin]]
    IN  SelectSeq(remaining, LAMBDA r : r.quantity > 0)
            \o SelectSeq(selected, LAMBDA r : r.quantity > 0)

\* Faulty variant of line 69: a lower bound of one on every leg.
LowerBound_Ones(ub) == [i \in DOMAIN ub |-> 1]

\* Line 69: lb = np.zeros_like(ub)
LowerBound(ub) == [i \in DOMAIN ub |-> 0]

\* _optimize: the reports it can return, one per optimal solution.  With no
\* solution res.success is false and line 91 raises; pd.concat raises on an
\* empty list (lines 88-89).
optimize_report(exchange, legs, avail_strats, x, rows, error) ==
    [exchange |-> exchange, branch |-> "optimize", legs |-> legs,
     avail_strats |-> avail_strats, x |-> x, rows |-> rows, error |-> error]

\* Lines 79-91 on the solutions res of the program over A: the rows of each
\* solution, ValueError if it has none.
optimize_solved(exchange, legs, avail_strats, A, res) ==
    IF res = {}
    THEN { optimize_report(exchange, legs, avail_strats, <<>>, <<>>, "OptimizationFailed") }
    ELSE { optimize_report(exchange, legs, avail_strats, x,
                           OptimizeRows(legs, avail_strats, A, x),
                           IF OptimizeRows(legs, avail_strats, A, x) = <<>>
                           THEN "ValueError" ELSE "") : x \in res }

\* Lines 67-79: the integer program of the group.
optimize_program(exchange, legs, avail_strats, c, ub, A) ==
    optimize_solved(exchange, legs, avail_strats, A,
                    milp(Objective(c), A, LowerBound(ub), ub))

optimize_with(exchange, legs, avail_strats) ==
    IF avail_strats = <<>>
    THEN { optimize_report(exchange, legs, <<>>, <<>>, LegRows(legs), "") }
    ELSE optimize_program(exchange, legs, avail_strats,
                          [j \in DOMAIN avail_strats |-> avail_strats[j].margin_saving],
                          [i \in DOMAIN legs |-> legs[i].quantity],
                          IncidenceMatrix(legs, avail_strats))

optimize(exchange, legs, close) ==
    optimize_with(exchange, legs, find_available_strategies(legs, close))

\* Lines 95-98 and 108-111: the futures of the group, with total_margin
\* computed anew as quantity * margin.
FuturesWithTotal(legs) ==
    LET holding_futures == SelectSeq(legs, LAMBDA p : p.type = Future)
    IN  [i \in DOMAIN holding_futures |->
            [holding_futures[i] EXCEPT
                !.total_margin = holding_futures[i].quantity * holding_futures[i].margin]]

\* Faulty variant of _process_CFE: the legs of the other side are emptied
\* (quantity 0) instead of their margin.
process_CFE_ZeroQuantity(legs) ==
    LET holding_futures == FuturesWithTotal(legs)
        side == larger_side(holding_futures)
    IN  IF holding_futures = <<>> THEN legs
        ELSE [i \in DOMAIN legs |->
                IF legs[i].type = Future /\ legs[i].long_short # side
                THEN [legs[i] EXCEPT !.quantity = 0]
                ELSE legs[i]]

\* _process_CFE: one kept side over the group's futures, by quantity * margin.
process_CFE(legs) ==
    LET holding_futures == FuturesWithTotal(legs)
        side == larger_side(holding_futures)
    IN  IF holding_futures = <<>> THEN legs
        ELSE [i \in DOMAIN legs |->
                IF legs[i].type = Future /\ legs[i].long_short # side
                THEN [legs[i] EXCEPT !.margin = 0]
                ELSE legs[i]]

\* _process_SHFE: one kept side per variety of the group's futures.
process_SHFE(legs) ==
    LET SideOf(variety) ==
            larger_side(SelectSeq(FuturesWithTotal(legs), LAMBDA p : p.variety = variety))
    IN  [i \in DOMAIN legs |->
            IF legs[i].type = Future /\ legs[i].long_short # SideOf(legs[i].variety)
            THEN [legs[i] EXCEPT !.margin = 0]
            ELSE legs[i]]

\* _process_each_account(exchange) on the group's copy of the legs.
netting_report(exchange, branch, legs) ==
    [exchange |-> exchange, branch |-> branch, legs |-> legs,
     avail_strats |-> <<>>, x |-> <<>>, rows |-> LegRows(legs), error |-> ""]

process_each_account(exchange, legs, close) ==
    IF exchange = "CFFEX" THEN { netting_report(exchange, "CFE", process_CFE(legs)) }
    ELSE IF exchange = "SHFE" THEN { netting_report(exchange, "SHFE", process_SHFE(legs)) }
    ELSE optimize(exchange, legs, close)

\* The order of the groups of run(): the exchanges in the order of base.py.
ExchangeOrder == <<"CFFEX", "SSE", "SZSE", "SHFE", "DCE", "CZCE", "GFEX">>

\* self.holding.groupby(['exchange', 'account']): the exchanges present.
GroupKeys(legs) ==
    SelectSeq(ExchangeOrder, LAMBDA e : \E i \in DOMAIN legs : legs[i].exchange = e)

\* One group: its legs in the order of the table, index reset.
GroupOf(legs, exchange) == SelectSeq(legs, LAMBDA p : p.exchange = exchange)

(***************************************************************************)
(* The stress engine, margin_stress_test.py.  A shock r is a whole number  *)
(* of percent; a risk ratio margin / equity is the pair <<margin, equity>>;*)
(* a supplement margin / target_risk_ratio - equity is kept as the whole   *)
(* number 100 * margin - target_risk_ratio * equity, that is in units of   *)
(* 1 / target_risk_ratio of a yuan.                                        *)
(***************************************************************************)

\* target_risk_ratio = 0.95, in percent.
target_risk_ratio == 95

\* n_step = 2, the steps of a simulated path.
n_step == 2

\* scenarios_r = np.arange(-0.05, 0.051, 0.01), the grid of shocks.
scenarios_r == [k \in 1..11 |-> k - 6]

\* supplement.loc[account]: the deposit planned for each step.
supplement_plan == <<1000, 500>>

\* The seeds of the simulation.
Seeds == {1, 2}

\* The column 'udl' of a leg (data_utils.py:114, 135): the variety of a
\* future, the underlying of an option.
udl_of(pos) == IF pos.type = Future THEN pos.variety ELSE pos.option_mark_code

\* gen_path(n_path, seed) with n_path = 1: the cumulated return of each
\* underlying at each step of the simulated path; the seed fixes the path.
gen_path(seed) ==
    [step \in 1..n_step |->
        [udl \in DOMAIN MarginRatio \cup {"000300.SH", "M2401.DCE"} |->
            IF seed = 1
            THEN CASE udl = "IC" -> <<-10, -5>>[step]
                   [] udl = "IF" -> <<10, -5>>[step]
                   [] udl = "CU" -> <<-4, 6>>[step]
                   [] OTHER -> <<2, 4>>[step]
            ELSE IF udl \in {"IC", "IF"} THEN <<-3, -5>>[step] ELSE <<2, 4>>[step]]]

\* price * (1 + r) for a price in 1/1000 yuan that is a multiple of 100.
Shocked(price, r) == (price \div 100) * (100 + r)

\* Lines 28-29, the delta-gamma approximation of the option price for the
\* move ds = s - udl_price of the underlying (a multiple of 10):
\* close_price + ds * delta + 0.5 * ds**2 * gamma.
DeltaGamma(close_price, ds, delta, gamma) ==
    close_price + (ds * delta) \div 100
        + ((ds \div 10) * (((ds \div 10) * gamma) \div 100)) \div 200

\* MarginCalculator.calc_future_vec (margin_utils.py:79-90): calc_future is
\* called cell after cell on the same calculator, whose close_price each
\* call sets (lines 26-28).
calc_future_vec(pos, close_price_vec) ==
    LET self[k \in 0..Len(close_price_vec)] ==
            IF k = 0 THEN pos
            ELSE [self[k - 1] EXCEPT !.close_price = close_price_vec[k]]
    IN  [k \in DOMAIN close_price_vec |->
            calc_future(self[k].close_price, self[k].multiplier, self[k].margin_ratio)]

\* Faulty variant of line 104: the call hands over the option price only,
\* the calculator keeps the udl_price of the position.
calc_option_vec_StaleUdl(pos, udl_price_vec, close_price_vec) ==
    LET self[k \in 0..Len(close_price_vec)] ==
            IF k = 0 THEN pos
            ELSE [self[k - 1] EXCEPT !.close_price = close_price_vec[k]]
    IN  [k \in DOMAIN close_price_vec |-> calc_option(self[k])]

\* MarginCalculator.calc_option_vec (margin_utils.py:92-105): calc_option
\* is called cell after cell on the same calculator, whose udl_price and
\* close_price each call sets (lines 40-42).
calc_option_vec(pos, udl_price_vec, close_price_vec) ==
    LET self[k \in 0..Len(close_price_vec)] ==
            IF k = 0 THEN pos
            ELSE [self[k - 1] EXCEPT !.udl_price = udl_price_vec[k],
                                     !.close_price = close_price_vec[k]]
    IN  [k \in DOMAIN close_price_vec |-> calc_option(self[k])]

\* The cells of a leg: price, pnl and margin under each shock.
cells_of(price, pnl, margin) ==
    [k \in DOMAIN price |-> [price |-> price[k], pnl |-> pnl[k], margin |-> margin[k]]]

\* Lines 23-25: a future under the shocks r.
revalue_future(pos, r, quantity, quantity_dir) ==
    LET price == [k \in DOMAIN r |-> Shocked(pos.close_price, r[k])]
        margin == calc_future_vec(pos, price)
    IN  cells_of(price,
                 [k \in DOMAIN r |-> (price[k] - pos.close_price) * quantity_dir],
                 [k \in DOMAIN r |-> margin[k] * quantity])

\* Lines 27-32: an option under the shocks r of its underlying.
revalue_option(pos, r, quantity, quantity_dir) ==
    LET s == [k \in DOMAIN r |-> Shocked(pos.udl_price, r[k])]
        price == [k \in DOMAIN r |->
                     DeltaGamma(pos.close_price, s[k] - pos.udl_price, pos.delta, pos.gamma)]
        margin == calc_option_vec(pos, s, price)
    IN  cells_of(price,
                 [k \in DOMAIN r |-> (price[k] - pos.close_price) * quantity_dir],
                 [k \in DOMAIN r |-> margin[k] * quantity])

\* calc_pnl_margin_r(pos, r) for the shocks r of the leg's underlying: in
\* each cell the shocked price of the leg, its pnl (in 1/1000 yuan: the
\* price move times the signed quantity) and its margin.
calc_pnl_margin_r(pos, r) ==
    IF pos.type = Future
    THEN revalue_future(pos, r, pos.quantity,
                        pos.quantity * (IF pos.long_short = "long" THEN 1 ELSE -1))
    ELSE revalue_option(pos, r, pos.quantity,
                        pos.quantity * (IF pos.long_short = "long" THEN 1 ELSE -1))

\* Faulty variant of lines 168-178: SHFE netted across all its futures legs,
\* as CFFEX is.
calc_larger_side_margin_vec_AcrossVarieties(holding_account, margins) ==
    LET total_margin == SumSeq(margins)
        exchange == holding_account[1].exchange
        is_future == { i \in DOMAIN holding_account : holding_account[i].type = Future }
        SideSum(is_long) ==
            SumSeq([i \in DOMAIN margins |->
                       IF /\ i \in is_future
                          /\ (holding_account[i].long_short = "long") = is_long
                       THEN margins[i] ELSE 0])
    IN  IF exchange \notin {"CFFEX", "SHFE"} THEN total_margin
        ELSE IF is_future = {} THEN total_margin
        ELSE total_margin - Min2(SideSum(TRUE), SideSum(FALSE))

\* calc_larger_side_margin_vec(holding_account, margins) for one cell:
\* margins[i] is the margin of leg i in that cell.
calc_larger_side_margin_vec(holding_account, margins) ==
    LET total_margin == SumSeq(margins)
        exchange == holding_account[1].exchange
        is_future == { i \in DOMAIN holding_account : holding_account[i].type = Future }
        SideSum(is_long, varieties) ==
            SumSeq([i \in DOMAIN margins |->
                       IF /\ i \in is_future
                          /\ (holding_account[i].long_short = "long") = is_long
                          /\ holding_account[i].variety \in varieties
                       THEN margins[i] ELSE 0])
        Smaller(varieties) == Min2(SideSum(TRUE, varieties), SideSum(FALSE, varieties))
        FirstOfVariety(i) ==
            /\ i \in is_future
            /\ \A j \in is_future :
                  j < i => holding_account[j].variety # holding_account[i].variety
    IN  IF exchange \notin {"CFFEX", "SHFE"} THEN total_margin
        ELSE IF is_future = {} THEN total_margin
        ELSE IF exchange = "CFFEX"
        THEN total_margin
               - Smaller({ holding_account[i].variety : i \in is_future })
        ELSE total_margin
               - SumSeq([i \in DOMAIN margins |->
                            IF FirstOfVariety(i)
                            THEN Smaller({holding_account[i].variety}) ELSE 0])

\* Lines 89-91 and 137-139: cell by cell, the sum of the legs' pnl, in
\* yuan, and the netted margin of the account.  The legs put under stress
\* have price moves of whole yuan.
aggregate(holding_account, cells_pos, n_cell) ==
    [k \in 1..n_cell |->
        [pnl    |-> SumSeq([i \in DOMAIN cells_pos |-> cells_pos[i][k].pnl]) \div 1000,
         margin |-> calc_larger_side_margin_vec(
                        holding_account,
                        [i \in DOMAIN cells_pos |-> cells_pos[i][k].margin])]]

\* Faulty variant of line 136: only the first leg is revalued under the
\* shocks of the grid.
calc_udl_return_scenarios_FirstLeg(holding_account) ==
    aggregate(holding_account,
              [i \in DOMAIN holding_account |->
                  calc_pnl_margin_r(holding_account[i],
                                    IF i = 1 THEN scenarios_r
                                    ELSE [k \in DOMAIN scenarios_r |-> 0])],
              Len(scenarios_r))

\* MarginScenarioAnalysis._calc_udl_return_scenarios: every leg under the
\* shocks of the grid, one cell per shock.
calc_udl_return_scenarios(holding_account) ==
    aggregate(holding_account,
              [i \in DOMAIN holding_account |->
                  calc_pnl_margin_r(holding_account[i], scenarios_r)],
              Len(scenarios_r))

\* Faulty variant of line 149: the target ratio is not applied.
supplement_of_NoTarget(margin, equity) == Max2(100 * margin - 100 * equity, 0)

\* Line 149: np.maximum(margin / self.target_risk_ratio - equity, 0), times
\* target_risk_ratio.
supplement_of(margin, equity) == Max2(100 * margin - target_risk_ratio * equity, 0)

\* Lines 146-149 for one scenario: equity += pnl, then the two values.
scenario_row(r, cell, equity) ==
    [r |-> r, pnl |-> cell.pnl, margin |-> cell.margin,
     risk_ratio |-> <<cell.margin, equity + cell.pnl>>,
     supplement |-> supplement_of(cell.margin, equity + cell.pnl)]

scenario_rows(cells, equity) ==
    [k \in DOMAIN cells |-> scenario_row(scenarios_r[k], cells[k], equity)]

\* MarginScenarioAnalysis.calc_risk_ratio_supplement: one row per shock of
\* the grid.
calc_risk_ratio_supplement(holding_account, equity) ==
    scenario_rows(calc_udl_return_scenarios(holding_account), equity)

\* Faulty variant of line 99: the deposit of the step alone.
cumsum_StepOnly(s) == s

\* supplement.values.cumsum()
cumsum(s) == [k \in DOMAIN s |-> SumSeq(SubSeq(s, 1, k))]

\* MarginStressVaR._calc_path: every leg under the returns of its own udl,
\* one cell per step of the path.
calc_path(path, holding_account) ==
    aggregate(holding_account,
              [i \in DOMAIN holding_account |->
                  calc_pnl_margin_r(holding_account[i],
                                    [k \in DOMAIN path |->
                                        path[k][udl_of(holding_account[i])]])],
              Len(path))

\* Lines 98-100: equity += pnl + supplement.values.cumsum()[:, None], and
\* risk_ratio = margin / equity.
path_rows(cells, deposited, equity) ==
    [k \in DOMAIN cells |-> <<cells[k].margin, equity + cells[k].pnl + deposited[k]>>]

\* MarginStressVaR.calc_risk_ratio_VaR: the risk ratio of each step; with
\* one simulated path its percentile is its own value.
calc_risk_ratio_VaR(path, holding_account, supplement, equity) ==
    path_rows(calc_path(path, holding_account), cumsum(supplement), equity)

\* The engine before run(): built on the holdings and the account's equity.
StressEngine(equity) ==
    [equity |-> equity, ran |-> FALSE, error |-> "", seed |-> 0, remaining |-> 0,
     VaR |-> <<>>, scenario |-> <<>>]

\* Line 209: max(sum(holding_account['total_margin']) - equity, 0)
remaining_of(holding_account, equity) ==
    Max2(SumSeq([i \in DOMAIN holding_account |-> holding_account[i].total_margin])
           - equity, 0)

\* MarginStressTestCombined.run(n_path, seed): the account's copy of the
\* legs gives the VaR row and the scenario rows; an account with no leg is
\* skipped, and pd.concat raises ValueError on the empty list of scenario
\* frames.
MarginStressTestCombined_run(table, equity, seed) ==
    LET holding_account == table
    IN  IF holding_account = <<>>
        THEN [StressEngine(equity) EXCEPT !.ran = TRUE, !.error = "ValueError",
                                          !.seed = seed]
        ELSE [equity    |-> equity,
              ran       |-> TRUE,
              error     |-> "",
              seed      |-> seed,
              remaining |-> remaining_of(holding_account, equity),
              VaR       |-> calc_risk_ratio_VaR(gen_path(seed), holding_account,
                                                supplement_plan, equity),
              scenario  |-> calc_risk_ratio_supplement(holding_account, equity)]

(***************************************************************************)
(* The state machine.                                                      *)
(***************************************************************************)

\* The universes the holdings are drawn from.
NettingCodes ==
    {"AL2401.SHF", "CU2401.SHF", "IC2401.CFE", "IF2401.CFE", "IO2401-C-4000.CFE",
     "M2401.DCE"}
DCECodes ==
    {"M2401.DCE", "M2405.DCE", "M2401-C-3000.DCE", "M2401-C-3100.DCE", "M2401-P-3100.DCE"}
SSECodes == {"10005001.SH", "10005002.SH", "10005003.SH", "10005006.SH"}

\* The sets of at most MaxLegs position sides over the codes; none for a
\* holdings table with no rows.
HeldSides(codes) ==
    { S \in SUBSET (codes \X {"L", "S"}) : Cardinality(S) <= MaxLegs }

\* The raw table of the gross quantities q of a set of position sides: one
\* row per code held, in the order of the code.
RawTable(q) ==
    LET held == SortedCodes({ s[1] : s \in DOMAIN q })
    IN  [i \in DOMAIN held |->
            [code |-> held[i],
             long_qty  |-> IF <<held[i], "L">> \in DOMAIN q THEN q[<<held[i], "L">>] ELSE 0,
             short_qty |-> IF <<held[i], "S">> \in DOMAIN q
                           THEN q[<<held[i], "S">>] * (-1) ELSE 0]]

NoPair == [pos1 |-> <<>>, pos2 |-> <<>>, analysis |-> NoStrategy]
NoParse == [code |-> <<>>, result |-> <<>>]
\* No stress engine is built.
NoStress == StressEngine(0)
\* No leg is under the calculator.
NoCalc ==
    [pos |-> <<>>, calculated |-> FALSE, revalued |-> FALSE,
     margin |-> [error |-> "", margin |-> 0], cells |-> <<>>]

InitUpTo(codes, closes, max_qty) ==
    /\ pc = "raw"
    /\ \E S \in HeldSides(codes) : \E q \in [S -> 1..max_qty] : raw = RawTable(q)
    /\ is_close \in closes
    /\ holding = <<>>
    /\ groups = <<>>
    /\ holding_separated = <<>>
    /\ reports = <<>>
    /\ pair = NoPair
    /\ kwargs = "none"
    /\ parse = NoParse
    /\ stress = NoStress
    /\ calc = NoCalc

InitWith(codes, closes) == InitUpTo(codes, closes, MaxQty)

\* main.py: the holdings of an account that may trade on the netting
\* exchanges and on DCE; the optimizer is built with is_close = False.
InitHoldings == InitWith(NettingCodes, {FALSE})

\* MarginOptimizer built on a legs table with no rows.
InitNoLegs ==
    /\ pc = "normalized"
    /\ raw = <<>>
    /\ holding = <<>>
    /\ is_close = FALSE
    /\ groups = <<>>
    /\ holding_separated = <<>>
    /\ reports = <<>>
    /\ pair = NoPair
    /\ kwargs = "none"
    /\ parse = NoParse
    /\ stress = NoStress
    /\ calc = NoCalc

Init == InitHoldings \/ InitNoLegs

\* HoldingDataProcessor(holding, ...).process()
Process ==
    /\ pc = "raw"
    /\ \E error \in {process_raises(raw)} :
          IF error # ""
          THEN /\ pc' = error
               /\ UNCHANGED holding
          ELSE /\ holding' = process(raw)
               /\ pc' = "normalized"
    /\ UNCHANGED <<raw, is_close, groups, holding_separated, reports, pair, kwargs, parse, stress, calc>>

\* process_larger_side_margin(holding_account) applied to the account again.
ProcessLargerSideMargin ==
    /\ pc = "normalized"
    /\ holding # <<>>
    /\ holding' = process_larger_side_margin(holding)
    /\ pc' = "renetted"
    /\ UNCHANGED <<raw, is_close, groups, holding_separated, reports, pair, kwargs, parse, stress, calc>>

\* The ways run() is called: with no keyword argument, or as main.py calls
\* it, with include_zero_quantities = True / False.
RunCalls == {"none", "include_zero_quantities=True", "include_zero_quantities=False"}

\* MarginOptimizer(processed_holding, is_close).run(**kwargs): run(self)
\* declares no parameter, so a call that passes a keyword argument raises
\* TypeError before the body runs; otherwise the groups are formed.  With
\* no group the loop adds nothing and pd.concat raises ValueError on the
\* empty list (line 143).
Run ==
    /\ pc \in {"normalized", "renetted"}
    /\ \E call \in RunCalls :
          /\ kwargs' = call
          /\ IF call # "none"
             THEN /\ pc' = "TypeError"
                  /\ UNCHANGED <<groups, holding_separated, reports>>
             ELSE /\ groups' = GroupKeys(holding)
                  /\ holding_separated' = holding
                  /\ reports' = <<>>
                  /\ pc' = IF GroupKeys(holding) = <<>> THEN "ValueError" ELSE "running"
    /\ UNCHANGED <<raw, is_close, holding, pair, parse, stress, calc>>

\* Faulty variant of line 135: the group's legs are a view of self.holding,
\* so what the group's branch writes to them reaches the table.
HoldingAfterGroup_View(table, legs) ==
    [i \in DOMAIN table |->
        IF \E j \in DOMAIN legs : legs[j].code_dir = table[i].code_dir
        THEN legs[CHOOSE j \in DOMAIN legs : legs[j].code_dir = table[i].code_dir]
        ELSE table[i]]

\* self.holding after an iteration of the loop of run(): the group's legs
\* are a copy (line 135: holding_account.copy()), so the table keeps every
\* row whatever the group's branch writes to its legs.
HoldingAfterGroup(table, legs) == table

\* One iteration of the loop of run() (lines 134-142); after the last
\* group the results are concatenated and returned.  An exception raised
\* by the group's processing ends run().
ProcessEachAccount ==
    /\ pc = "running"
    /\ groups # <<>>
    /\ \E r \in process_each_account(Head(groups), GroupOf(holding, Head(groups)), is_close) :
          /\ holding_separated' = r.legs
          /\ reports' = Append(reports, r)
          /\ pc' = IF r.error # "" THEN r.error
                   ELSE IF Tail(groups) = <<>> THEN "done" ELSE "running"
          /\ holding' = HoldingAfterGroup(holding, r.legs)
    /\ groups' = Tail(groups)
    /\ UNCHANGED <<raw, is_close, pair, kwargs, parse, stress, calc>>

Next ==
    \/ Process
    \/ ProcessLargerSideMargin
    \/ Run
    \/ ProcessEachAccount

Spec == Init /\ [][Next]_vars

\* The holdings of an account of a MILP exchange: DCE (futures, options and
\* future-option pairs) or SSE (ETF options; is_close decides AutoHedging).
InitOpt ==
    \/ InitWith(DCECodes, {FALSE})
    \/ InitWith(SSECodes, BOOLEAN)

SpecOpt == InitOpt /\ [][Next]_vars

\* The holdings of a DCE account that trades two delivery months of one
\* variety, with larger quantities.
CalendarCodes == {"M2401.DCE", "M2405.DCE"}

InitCalendar == InitUpTo(CalendarCodes, {FALSE}, MaxScenarioQty)

SpecCalendar == InitCalendar /\ [][Next]_vars

\* The holdings of an account some of whose codes have no row in the market
\* data; only the normalization is run.
DataCodes ==
    {"10005001.SH", "10005009.SH", "M2401-C-3200.DCE", "M2401.DCE", "M2409.DCE"}

InitData == InitWith(DataCodes, {FALSE})

NextData == Process

SpecData == InitData /\ [][NextData]_vars

\* The codes handed to parse_position_code: a symbol made of a prefix, a
\* run of digits and a suffix, followed by a tail (the dot and the alias, or
\* something else).
CodePrefixes ==
    { <<>>, <<"I", "F">>, <<"I", "O">>, <<"i", "f">>, <<"M">>, <<"m">>, <<"c", "u">>,
      <<"I", "1">>, <<"1", "0">> }
CodeDigits ==
    { <<>>, <<"2", "4", "0">>, <<"2", "4", "0", "1">>, <<"2", "4", "0", "1", "5">>,
      <<"0", "0", "5", "0", "0", "1">>, <<"1", "0", "0", "0", "5", "0", "0", "1">> }
CodeSuffixes ==
    { <<>>, <<"C">>, <<"C", "3">>, <<"-", "C", "-">>, <<"-", "P", "-", "3">>,
      <<"-", "3">>, <<"P", "3", "0">>, <<"X">>, <<"c", "3">> }
CodeTails ==
    { <<>>, <<".">>, <<".", "C", "F", "E">>, <<".", "C", "C", "F", "X">>, <<".", "S", "H">>,
      <<".", "S", "Z">>, <<".", "S", "H", "F">>, <<".", "D", "C", "E">>,
      <<".", "C", "Z", "C">>, <<".", "G", "F", "E">>, <<".", "X", "X">>,
      <<".", "d", "c", "e">>, <<".", "D", "C", "E", ".", "X">>, <<".", ".", "D", "C", "E">> }

InitParse ==
    /\ pc = "code"
    /\ \E p \in CodePrefixes, n \in CodeDigits, x \in CodeSuffixes, t \in CodeTails :
          parse = [code |-> p \o n \o x \o t, result |-> <<>>]
    /\ is_close = FALSE
    /\ raw = <<>>
    /\ holding = <<>>
    /\ groups = <<>>
    /\ holding_separated = <<>>
    /\ reports = <<>>
    /\ pair = NoPair
    /\ kwargs = "none"
    /\ stress = NoStress
    /\ calc = NoCalc

ParsePositionCode ==
    /\ pc = "code"
    /\ parse' = [parse EXCEPT !.result = parse_position_code(parse.code)]
    /\ pc' = "parsed"
    /\ UNCHANGED <<raw, is_close, holding, groups, holding_separated, reports, pair,
                   kwargs, stress, calc>>

NextParse == ParsePositionCode

SpecParse == InitParse /\ [][NextParse]_vars

\* The accounts put under stress: futures of CFFEX, SHFE and DCE.
StressCodes == {"CU2401.SHF", "IC2401.CFE", "IF2401.CFE", "RB2401.DCE"}

\* The account's equity in margin_account.
Equities == {3000, 100000}

\* The raw holdings, of one of the sets of position sides, and a stress
\* engine waiting for the normalized table.
InitStressOn(sides) ==
    /\ pc = "raw"
    /\ \E S \in sides : \E q \in [S -> 1..MaxQty] : raw = RawTable(q)
    /\ is_close = FALSE
    /\ holding = <<>>
    /\ groups = <<>>
    /\ holding_separated = <<>>
    /\ reports = <<>>
    /\ pair = NoPair
    /\ kwargs = "none"
    /\ parse = NoParse
    /\ \E equity \in Equities : stress = StressEngine(equity)
    /\ calc = NoCalc

\* Accounts of at most MaxStressLegs position sides, and accounts of a long
\* copper leg with two sides of the CFFEX index futures.
InitStress ==
    \/ InitStressOn({ S \in SUBSET (StressCodes \X {"L", "S"}) :
                        Cardinality(S) <= MaxStressLegs })
    \/ InitStressOn({ {<<"CU2401.SHF", "L">>} \cup T :
                        T \in { U \in SUBSET ({"IC2401.CFE", "IF2401.CFE"} \X {"L", "S"}) :
                                    Cardinality(U) = 2 } })

\* MarginStressTestCombined(processed_holding, ...).run(), before the
\* optimizer runs or after it has returned.
StressRun ==
    /\ pc \in {"normalized", "done"}
    /\ ~stress.ran
    /\ \E seed \in Seeds :
          stress' = MarginStressTestCombined_run(holding, stress.equity, seed)
    /\ UNCHANGED <<pc, raw, holding, is_close, groups, holding_separated, reports, pair,
                   kwargs, parse, calc>>

NextStress ==
    \/ Process
    \/ Run
    \/ ProcessEachAccount
    \/ StressRun

SpecStress == InitStress /\ [][NextStress]_vars

\* The accounts of the scenario analysis: SHFE futures of two varieties;
\* CFFEX futures and an index option; futures of two exchanges and a
\* commodity option.
InitScenario ==
    \/ InitStressOn(HeldSides({"AL2401.SHF", "CU2401.SHF"}))
    \/ InitStressOn(HeldSides({"IC2401.CFE", "IF2401.CFE", "IO2401-C-4000.CFE"}))
    \/ InitStressOn(HeldSides({"CU2401.SHF", "IF2401.CFE", "M2401-P-3000.DCE"}))

\* main.py:28-46 without the optimizer: process(), then the stress engine.
NextScenario ==
    \/ Process
    \/ StressRun

SpecScenario == InitScenario /\ [][NextScenario]_vars

\* The quotes of an option on other days: the underlying below, at or above
\* the quoted price (in percent of it), the option at its quoted price or,
\* an ETF option, deep in the money (in percent of the strike).
UdlMoves == {-50, 0, 50}
DeepCloses == {95}

Quotes(c) ==
    IF c.type = Future THEN {c}
    ELSE { [c EXCEPT !.udl_price = (c.udl_price \div 100) * (100 + m),
                     !.close_price = close] :
             m \in UdlMoves,
             close \in {c.close_price} \cup
                       (IF c.variety = "ETF"
                        THEN { (c.strike_price \div 100) * d : d \in DeepCloses }
                        ELSE {}) }

\* One position of the holdings merged with its quote (data_utils.py:69-84).
InitLeg ==
    /\ pc = "leg"
    /\ \E code \in Codes, side \in {"long", "short"}, quantity \in 1..MaxQty :
          \E c \in Quotes(ContractOf(code)) :
             calc = [NoCalc EXCEPT
                       !.pos = SplitFields(c, [code |-> code,
                                               long_qty |-> quantity,
                                               short_qty |-> quantity * (-1)], side)]
    /\ raw = <<>>
    /\ holding = <<>>
    /\ is_close = FALSE
    /\ groups = <<>>
    /\ holding_separated = <<>>
    /\ reports = <<>>
    /\ pair = NoPair
    /\ kwargs = "none"
    /\ parse = NoParse
    /\ stress = NoStress

\* data_utils.py:85-86: MarginCalculator(pos).calc()
Calc ==
    /\ pc = "leg"
    /\ ~calc.calculated
    /\ calc' = [calc EXCEPT !.calculated = TRUE,
                            !.margin = MarginCalculator_calc(calc.pos)]
    /\ UNCHANGED <<pc, raw, holding, is_close, groups, holding_separated, reports, pair,
                   kwargs, parse, stress>>

\* calc_pnl_margin_r(pos, self.scenarios_r)
CalcPnlMarginR ==
    /\ pc = "leg"
    /\ ~calc.revalued
    /\ calc' = [calc EXCEPT !.revalued = TRUE,
                            !.cells = calc_pnl_margin_r(calc.pos, scenarios_r)]
    /\ UNCHANGED <<pc, raw, holding, is_close, groups, holding_separated, reports, pair,
                   kwargs, parse, stress>>

NextLeg ==
    \/ Calc
    \/ CalcPnlMarginR

SpecLeg == InitLeg /\ [][NextLeg]_vars

\* One leg of the normalized table: a side of a contract with its margin.
Leg(code, side, quantity) ==
    SplitAndMargin(<< [code |-> code,
                       long_qty  |-> IF side = "long" THEN quantity ELSE 0,
                       short_qty |-> IF side = "short" THEN quantity * (-1) ELSE 0] >>)[1]

Legs == { Leg(code, side, quantity) :
            code \in Codes, side \in {"long", "short"}, quantity \in 1..MaxQty }

\* MarginOptimizer._analyze_strategy(anchor_pos, pos) on two legs of one
\* (exchange, account) group.
InitPair ==
    /\ pc = "pair"
    /\ \E pos1 \in Legs, pos2 \in Legs :
          /\ pos1.code_dir # pos2.code_dir
          /\ pos1.exchange = pos2.exchange
          /\ pair = [pos1 |-> pos1, pos2 |-> pos2, analysis |-> NoStrategy]
    /\ is_close \in BOOLEAN
    /\ raw = <<>>
    /\ holding = <<>>
    /\ groups = <<>>
    /\ holding_separated = <<>>
    /\ reports = <<>>
    /\ kwargs = "none"
    /\ parse = NoParse
    /\ stress = NoStress
    /\ calc = NoCalc

AnalyzeStrategy ==
    /\ pc = "pair"
    /\ pair' = [pair EXCEPT !.analysis = analyze(pair.pos1, pair.pos2, is_close)]
    /\ pc' = "analyzed"
    /\ UNCHANGED <<raw, is_close, holding, groups, holding_separated, reports, kwargs, parse, stress, calc>>

NextPair == AnalyzeStrategy

SpecPair == InitPair /\ [][NextPair]_vars

\* The optimizer's output table: the rows of every group.
Optimum == Concat([g \in DOMAIN reports |-> reports[g].rows])

(***************************************************************************)
(* Properties.  They are stated over what the program takes in (raw, the   *)
(* normalized table) and gives out (the rows and the counts of a report),  *)
(* not over the optimizer's own matrix.                                    *)
(***************************************************************************)

\* The legs run() hands to the group of a report.
GroupLegs(g) == GroupOf(holding, reports[g].exchange)

MILPGroups == { g \in DOMAIN reports : reports[g].exchange \notin {"CFFEX", "SHFE"} }
NettingGroups == { g \in DOMAIN reports : reports[g].exchange \in {"CFFEX", "SHFE"} }

IsStrategyRow(row) == Len(row.code_dir) = 2

\* A strategy (a row or an enumerated instance) contains the leg.
Contains(strat, leg) == leg.code_dir \in { strat.code_dir[1], strat.code_dir[2] }

LegOf(legs, code_dir) == legs[CHOOSE i \in DOMAIN legs : legs[i].code_dir = code_dir]

\* Sum of the selected counts of the strategy rows that contain the leg.
Used(rows, leg) ==
    SumSeq([k \in DOMAIN rows |->
               IF IsStrategyRow(rows[k]) /\ Contains(rows[k], leg)
               THEN rows[k].quantity ELSE 0])

\* C1: in the output of every MILP group, for every leg of the group the
\* selected counts of the strategy rows that contain the leg sum to at most
\* the leg's quantity.
C1_Capacity ==
    \A g \in MILPGroups :
        \A i \in DOMAIN GroupLegs(g) :
            Used(reports[g].rows, GroupLegs(g)[i]) <= GroupLegs(g)[i].quantity

\* A leg of quantity 2 is used up by two different selected strategies.
C1_Witness ==
    \E g \in MILPGroups :
        \E i \in DOMAIN GroupLegs(g) :
            LET leg == GroupLegs(g)[i]
                rows == reports[g].rows
            IN  /\ leg.quantity = 2
                /\ Used(rows, leg) = 2
                /\ Cardinality({ k \in DOMAIN rows :
                                   IsStrategyRow(rows[k]) /\ Contains(rows[k], leg) }) = 2

\* The assignments of counts to the enumerated instances that respect
\* every leg's quantity.
FeasibleCounts(g) ==
    LET S == reports[g].avail_strats
        legs == GroupLegs(g)
    IN  { y \in [DOMAIN S -> 0..MaxQty] :
            \A i \in DOMAIN legs :
                SumSeq([s \in DOMAIN S |->
                           IF Contains(S[s], legs[i]) THEN y[s] ELSE 0])
                    <= legs[i].quantity }

\* Saving of a strategy over its two legs held apart.
SavingOf(legs, strat) ==
    LegOf(legs, strat.code_dir[1]).margin + LegOf(legs, strat.code_dir[2]).margin
        - strat.margin

TotalSaving(g, y) ==
    SumSeq([s \in DOMAIN reports[g].avail_strats |->
               SavingOf(GroupLegs(g), reports[g].avail_strats[s]) * y[s]])

\* C2: the counts returned for a MILP group are a feasible assignment and
\* no feasible assignment of the enumerated instances saves strictly more.
C2_Optimal ==
    \A g \in MILPGroups :
        reports[g].avail_strats # <<>> =>
            /\ reports[g].x \in FeasibleCounts(g)
            /\ \A y \in FeasibleCounts(g) : TotalSaving(g, y) <= TotalSaving(g, reports[g].x)

\* Two enumerated instances compete for a leg, and some feasible non-zero
\* assignment saves strictly less than the one returned.
C2_Witness ==
    \E g \in MILPGroups :
        LET S == reports[g].avail_strats
        IN  /\ Len(S) >= 2
            /\ \E i \in DOMAIN GroupLegs(g) :
                  /\ Contains(S[1], GroupLegs(g)[i])
                  /\ Contains(S[2], GroupLegs(g)[i])
                  /\ GroupLegs(g)[i].quantity = 1
            /\ \E y \in FeasibleCounts(g) :
                  /\ TotalSaving(g, y) > 0
                  /\ TotalSaving(g, y) < TotalSaving(g, reports[g].x)

\* C3: every enumerated instance and every selected strategy row of a
\* MILP group has margin_saving > 0.
C3_PositiveSaving ==
    \A g \in MILPGroups :
        /\ \A s \in DOMAIN reports[g].avail_strats :
              /\ reports[g].avail_strats[s].margin_saving > 0
              /\ SavingOf(GroupLegs(g), reports[g].avail_strats[s]) > 0
        /\ \A k \in DOMAIN reports[g].rows :
              IsStrategyRow(reports[g].rows[k]) =>
                  SavingOf(GroupLegs(g), reports[g].rows[k]) > 0

\* A group in which one pair of legs forms a variant that saves nothing
\* (it is not enumerated) and another strategy is selected.
C3_Witness ==
    \E g \in MILPGroups :
        LET legs == GroupLegs(g)
        IN  /\ \E i \in DOMAIN legs, j \in DOMAIN legs :
                  /\ i < j
                  /\ analyze(legs[i], legs[j], is_close).type # "None"
                  /\ analyze(legs[i], legs[j], is_close).margin_saving <= 0
                  /\ \A s \in DOMAIN reports[g].avail_strats :
                        reports[g].avail_strats[s].code_dir
                            # <<legs[i].code_dir, legs[j].code_dir>>
            /\ \E k \in DOMAIN reports[g].rows : IsStrategyRow(reports[g].rows[k])

\* Total posted margin of a table of rows or legs.
Posted(rows) == SumSeq([k \in DOMAIN rows |-> rows[k].quantity * rows[k].margin])

\* C4: for every MILP group the posted margin of the output (residual rows
\* plus strategy rows) is at most the posted margin of the group's legs.
C4_NoIncrease ==
    \A g \in MILPGroups : Posted(reports[g].rows) <= Posted(GroupLegs(g))

\* An output with a residual row and a strategy row that posts strictly
\* less than the legs did.
C4_Witness ==
    \E g \in MILPGroups :
        /\ Posted(reports[g].rows) < Posted(GroupLegs(g))
        /\ \E k \in DOMAIN reports[g].rows : IsStrategyRow(reports[g].rows[k])
        /\ \E k \in DOMAIN reports[g].rows : ~IsStrategyRow(reports[g].rows[k])

\* The legs before netting: split and margined, in the order of holding.
BeforeNetting == SplitAndMargin(raw)

MarginsOf(legs) == [i \in DOMAIN legs |-> <<legs[i].margin, legs[i].total_margin>>]

\* C5: netting leaves margin and total_margin of every option leg and of
\* every leg whose exchange is not CFFEX or SHFE unchanged, for any
\* account, one that holds legs on several exchanges included.
C5_NettingFrame ==
    pc \in {"normalized", "renetted"} =>
        \A i \in DOMAIN holding :
            (holding[i].type = Option \/ holding[i].exchange \notin {"CFFEX", "SHFE"}) =>
                /\ holding[i].margin = BeforeNetting[i].margin
                /\ holding[i].total_margin = BeforeNetting[i].total_margin

\* All the legs of the account are on one exchange.
SingleExchange ==
    \A i \in DOMAIN BeforeNetting : BeforeNetting[i].exchange = BeforeNetting[1].exchange

\* C5 for the accounts of one exchange only: there the frame holds.
C5_SingleExchangeFrame == SingleExchange => C5_NettingFrame

\* C6: netting twice gives the per-leg margins of netting once, both for
\* process_larger_side_margin applied again and for the optimizer's
\* _process_CFE / _process_SHFE applied to a normalized group.
C6_NettingIdempotent ==
    /\ pc = "renetted" => MarginsOf(holding) = MarginsOf(process(raw))
    /\ \A g \in NettingGroups :
          [i \in DOMAIN reports[g].legs |-> reports[g].legs[i].margin]
              = [i \in DOMAIN GroupLegs(g) |-> GroupLegs(g)[i].margin]

\* The first half of C6 alone: process_larger_side_margin applied to its
\* own result changes nothing.
C6_TwiceSame == pc = "renetted" => holding = process(raw)

\* C6 for the accounts of one exchange only: there the optimizer's netting
\* changes no margin of the normalized table.
C6_SingleExchangeIdempotent == SingleExchange => C6_NettingIdempotent

\* Sum of total_margin over the futures legs of one side (and, with
\* varieties given, of those varieties).
SideTotal(legs, side, varieties) ==
    SumSeq([i \in DOMAIN legs |->
               IF /\ legs[i].type = Future
                  /\ legs[i].long_short = side
                  /\ legs[i].variety \in varieties
               THEN legs[i].total_margin ELSE 0])

\* The kept side: the larger sum, long on an exact tie.
KeptSide(legs, varieties) ==
    IF SideTotal(legs, "long", varieties) >= SideTotal(legs, "short", varieties)
    THEN "long" ELSE "short"

AllVarieties == { Market[k].variety : k \in DOMAIN Market }

\* C7: for an account netted as CFFEX (its first row is a CFFEX leg) the
\* long and short total_margin are summed over all its futures legs, the
\* side with the larger sum is kept (long on a tie), margin and
\* total_margin are 0 on every futures leg of the other side, every other
\* leg keeps its margins and every leg keeps its quantity.
C7_CFFEXNetting ==
    (pc = "normalized" /\ holding # <<>> /\ BeforeNetting[1].exchange = "CFFEX") =>
        /\ Len(holding) = Len(BeforeNetting)
        /\ \A i \in DOMAIN holding :
              /\ holding[i].quantity = BeforeNetting[i].quantity
              /\ holding[i].code_dir = BeforeNetting[i].code_dir
              /\ IF /\ holding[i].type = Future
                    /\ holding[i].long_short # KeptSide(BeforeNetting, AllVarieties)
                 THEN holding[i].margin = 0 /\ holding[i].total_margin = 0
                 ELSE /\ holding[i].margin = BeforeNetting[i].margin
                      /\ holding[i].total_margin = BeforeNetting[i].total_margin

\* Long total 300000 against short total 180000: the short leg is zeroed.
C7_Witness ==
    /\ pc = "normalized"
    /\ holding # <<>>
    /\ BeforeNetting[1].exchange = "CFFEX"
    /\ SideTotal(BeforeNetting, "long", AllVarieties) = 300000
    /\ SideTotal(BeforeNetting, "short", AllVarieties) = 180000
    /\ \E i \in DOMAIN holding :
          /\ holding[i].long_short = "short"
          /\ BeforeNetting[i].total_margin = 180000
          /\ holding[i].margin = 0
          /\ holding[i].total_margin = 0
          /\ holding[i].quantity = 1

\* C8: for an account netted as SHFE (its first row is an SHFE leg) every
\* futures leg is judged by its own variety alone: the side with the larger
\* summed total_margin over that variety's futures legs is kept, the legs
\* of the variety's other side are zeroed, all else is unchanged.
C8_SHFENetting ==
    (pc = "normalized" /\ holding # <<>> /\ BeforeNetting[1].exchange = "SHFE") =>
        /\ Len(holding) = Len(BeforeNetting)
        /\ \A i \in DOMAIN holding :
              /\ holding[i].quantity = BeforeNetting[i].quantity
              /\ holding[i].code_dir = BeforeNetting[i].code_dir
              /\ IF /\ holding[i].type = Future
                    /\ holding[i].long_short
                           # KeptSide(BeforeNetting, {holding[i].variety})
                 THEN holding[i].margin = 0 /\ holding[i].total_margin = 0
                 ELSE /\ holding[i].margin = BeforeNetting[i].margin
                      /\ holding[i].total_margin = BeforeNetting[i].total_margin

\* CU long against a smaller CU short keeps long; AL, held short only and
\* smaller than the CU long, keeps short: the kept sides differ by variety.
C8_Witness ==
    /\ pc = "normalized"
    /\ holding # <<>>
    /\ BeforeNetting[1].exchange = "SHFE"
    /\ KeptSide(BeforeNetting, {"CU"}) = "long"
    /\ KeptSide(BeforeNetting, {"AL"}) = "short"
    /\ KeptSide(BeforeNetting, AllVarieties) = "long"
    /\ \E i \in DOMAIN holding :
          /\ holding[i].variety = "CU" /\ holding[i].long_short = "short"
          /\ holding[i].margin = 0 /\ BeforeNetting[i].margin > 0
    /\ \E i \in DOMAIN holding :
          /\ holding[i].variety = "AL" /\ holding[i].long_short = "short"
          /\ holding[i].margin > 0

\* C9: the output of a CFFEX or SHFE group comes from the netting branch,
\* with no strategy enumerated and no solver run: exactly one row per leg,
\* in the order of the legs, each with the leg's original quantity.
C9_NettingGroupsKeepRows ==
    \A g \in NettingGroups :
        /\ reports[g].branch \in {"CFE", "SHFE"}
        /\ reports[g].avail_strats = <<>>
        /\ reports[g].x = <<>>
        /\ Len(reports[g].rows) = Len(GroupLegs(g))
        /\ \A i \in DOMAIN reports[g].rows :
              /\ reports[g].rows[i].code_dir = <<GroupLegs(g)[i].code_dir>>
              /\ reports[g].rows[i].quantity = GroupLegs(g)[i].quantity
              /\ ~IsStrategyRow(reports[g].rows[i])

\* A CFFEX group of a long future, a short future and an option: three
\* rows, one of them with its margin netted away.
C9_Witness ==
    \E g \in NettingGroups :
        /\ reports[g].exchange = "CFFEX"
        /\ Len(reports[g].rows) = 3
        /\ \E i \in DOMAIN reports[g].rows :
              /\ reports[g].rows[i].type = Future
              /\ reports[g].rows[i].margin = 0
              /\ reports[g].rows[i].quantity = 2
        /\ \E i \in DOMAIN reports[g].rows : reports[g].rows[i].type = Option

\* The variants of the dispatched family whose predicate holds of the
\* pair after the family's swap.
ValidOfPair ==
    LET family == FamilyOf(pair.pos1, pair.pos2)
        p == modify_positions(family, pair.pos1, pair.pos2)
    IN  { subclasses(family)[i] : i \in ValidVariants(family, p[1], p[2], is_close) }

\* C10: for two legs of one exchange, after the family's swap at most one
\* variant of the family has a true predicate, and the analyzer returns
\* that variant (none when no predicate holds).
C10_Exclusive ==
    pc = "analyzed" =>
        /\ Cardinality(ValidOfPair) <= 1
        /\ ValidOfPair = {} => pair.analysis.type = "None"
        /\ ValidOfPair # {} => ValidOfPair = {pair.analysis.type}

\* A long and a short leg of one DCE future: FutureLockPosition and
\* nothing else.
C10_Witness ==
    /\ pc = "analyzed"
    /\ pair.analysis.type = "FutureLockPosition"
    /\ pair.pos1.code = pair.pos2.code
    /\ pair.pos1.variety = pair.pos2.variety
    /\ ValidOfPair = {"FutureLockPosition"}

\* The residual rows of a leg in the output rows of its group.
ResidualRows(rows, leg) ==
    { k \in DOMAIN rows : ~IsStrategyRow(rows[k]) /\ rows[k].code_dir = <<leg.code_dir>> }

\* C11: for each leg of a MILP group the output contains one residual row
\* whose quantity is the leg's quantity minus the selected counts of the
\* strategies that contain it, never negative; the row is missing only if
\* that quantity is zero and the caller's flag asked for the zero-quantity
\* rows to be filtered.
C11_ResidualRows ==
    \A g \in MILPGroups :
        \A i \in DOMAIN GroupLegs(g) :
            LET leg == GroupLegs(g)[i]
                rows == reports[g].rows
                residual == leg.quantity - Used(rows, leg)
                res == ResidualRows(rows, leg)
            IN  /\ residual >= 0
                /\ \A k \in res : rows[k].quantity = residual
                /\ \/ Cardinality(res) = 1
                   \/ /\ Cardinality(res) = 0
                      /\ residual = 0
                      /\ kwargs = "include_zero_quantities=False"

\* What the code does: a leg has its residual row exactly when the residual
\* quantity is positive, whatever the caller asked for.
C11_PositiveResidualsOnly ==
    \A g \in MILPGroups :
        \A i \in DOMAIN GroupLegs(g) :
            LET leg == GroupLegs(g)[i]
                rows == reports[g].rows
                residual == leg.quantity - Used(rows, leg)
                res == ResidualRows(rows, leg)
            IN  /\ residual >= 0
                /\ \A k \in res : rows[k].quantity = residual
                /\ Cardinality(res) = IF residual > 0 THEN 1 ELSE 0

\* A call of run() that passes the flag never returns an output.
C11_FlagCallFails == kwargs # "none" => pc = "TypeError" /\ reports = <<>>

\* Scenario S1: long M2401.DCE 3 (margin 8000), short M2405.DCE 2 (margin 9000).
S1_Raw ==
    << [code |-> "M2401.DCE", long_qty |-> 3, short_qty |-> 0],
       [code |-> "M2405.DCE", long_qty |-> 0, short_qty |-> -2] >>

\* The sum of quantity * margin over the legs of the normalized table.
Unoptimized == SumSeq([i \in DOMAIN holding |-> holding[i].quantity * holding[i].margin])

\* C12: on S1 the optimizer's only available strategy is the CalendarSpread
\* of the two legs with combined margin 9000 and saving 8000; it selects
\* exactly two units, the output is the residual long leg (1 unit at 8000)
\* and the spread (2 units at 9000), 26000 in total instead of 42000.
C12_S1 ==
    (raw = S1_Raw /\ pc = "done") =>
        /\ Len(reports) = 1
        /\ reports[1].exchange = "DCE" /\ reports[1].branch = "optimize"
        /\ reports[1].avail_strats =
              << [code_dir |-> << <<"M2401.DCE", "L">>, <<"M2405.DCE", "S">> >>,
                  type |-> "CalendarSpread", margin |-> 9000, margin_saving |-> 8000] >>
        /\ reports[1].x = <<2>>
        /\ Optimum =
              << [code_dir |-> << <<"M2401.DCE", "L">> >>, type |-> Future,
                  quantity |-> 1, margin |-> 8000],
                 [code_dir |-> << <<"M2401.DCE", "L">>, <<"M2405.DCE", "S">> >>,
                  type |-> "CalendarSpread", quantity |-> 2, margin |-> 9000] >>
        /\ Posted(Optimum) = 26000
        /\ Unoptimized = 42000

\* S1 has been optimized.
C12_Witness == raw = S1_Raw /\ pc = "done" /\ Len(reports) = 1

\* Scenario S3: an SSE account long one call of strike 3.0 (10005001.SH,
\* margin 0 as a long option) and short one call of strike 3.1 (10005002.SH,
\* margin 2000), same underlying and expiry.
S3_Raw ==
    << [code |-> "10005001.SH", long_qty |-> 1, short_qty |-> 0],
       [code |-> "10005002.SH", long_qty |-> 0, short_qty |-> -1] >>

C14_NeverFails ==
    /\ pc # "OptimizationFailed"
    /\ \A g \in DOMAIN reports : reports[g].error # "OptimizationFailed"

\* The solver has been called on a group with three legs of which one
\* belongs to no available strategy, and has returned a solution.
C14_Witness ==
    /\ pc = "done"
    /\ \E g \in MILPGroups :
          /\ reports[g].avail_strats # <<>>
          /\ Len(reports[g].x) = Len(reports[g].avail_strats)
          /\ \E i \in DOMAIN GroupLegs(g) :
                \A j \in DOMAIN reports[g].avail_strats :
                    ~Contains(reports[g].avail_strats[j], GroupLegs(g)[i])

\* The exceptions a step of the pipeline can end with.
Exceptions == {"ValueError", "AttributeError", "TypeError", "OptimizationFailed"}

\* C15: empty inputs are not errors: on a holdings table with no rows
\* normalization returns the empty table and MarginOptimizer.run, called as
\* declared, returns an empty output; neither ends with an exception.
C15_EmptyIsNoError ==
    (raw = <<>> /\ pair = NoPair /\ kwargs = "none") =>
        /\ pc \notin Exceptions
        /\ holding = <<>>
        /\ Optimum = <<>>

\* The empty cases that are no errors in the code: a CFFEX / SHFE account
\* with no futures leg is normalized and reported with every margin as
\* computed, and a group with no available strategy is output as its legs.
C15_IdentityCases ==
    /\ (pc = "normalized" /\ holding # <<>>
           /\ \A i \in DOMAIN holding : holding[i].type # Future)
          => holding = BeforeNetting
    /\ \A g \in DOMAIN reports :
          (reports[g].avail_strats = <<>> /\ reports[g].branch = "optimize")
              => reports[g].rows = LegRows(GroupLegs(g))

\* The raw table holds a position (of the given type and sides) whose code
\* has no row in the market data.
HoldsUnlisted(type, long, short) ==
    \E i \in DOMAIN raw :
        /\ raw[i].code \in UnlistedCodes
        /\ ParsedOf(raw[i].code).type = type
        /\ \/ long /\ raw[i].long_qty > 0
           \/ short /\ raw[i].short_qty < 0

\* C16: when the market data has no row for a leg, process() fails (the
\* failure the specification names MissingMarketData), whether the leg is a
\* future, a short option or a long option; no such leg is ever output with
\* a computed margin.
C16_MissingDataFails ==
    /\ (pc # "raw" /\ (HoldsUnlisted(Future, TRUE, TRUE) \/ HoldsUnlisted(Option, TRUE, TRUE)))
          => pc \in Exceptions
    /\ \A i \in DOMAIN holding : holding[i].code \notin UnlistedCodes

\* What the code does: an unlisted future or short option makes process()
\* raise (AttributeError), and a table whose only unlisted legs are long
\* options is normalized with margin 0 on them.
C16_FuturesAndShortOptionsFail ==
    /\ (pc # "raw" /\ (HoldsUnlisted(Future, TRUE, TRUE) \/ HoldsUnlisted(Option, FALSE, TRUE)))
          => pc = "AttributeError" /\ holding = <<>>
    /\ (pc # "raw" /\ raw # <<>> /\ ~HoldsUnlisted(Future, TRUE, TRUE)
           /\ ~HoldsUnlisted(Option, FALSE, TRUE))
          => /\ pc = "normalized"
             /\ \A i \in DOMAIN holding :
                   holding[i].code \in UnlistedCodes =>
                       holding[i].margin = 0 /\ holding[i].total_margin = 0

\* The position of the dots of the code handed to the parser, its symbol
\* (before the dot) and its alias (after the dot) when there is one dot.
DotsOfCode == { i \in DOMAIN parse.code : parse.code[i] = "." }
SymbolOfCode == SubSeq(parse.code, 1, (CHOOSE i \in DotsOfCode : TRUE) - 1)
AliasOfCode == SubSeq(parse.code, (CHOOSE i \in DotsOfCode : TRUE) + 1, Len(parse.code))

AllDigits(s) == \A i \in DOMAIN s : s[i] \in DigitChars
AllLetters(s) == s # <<>> /\ \A i \in DOMAIN s : IsAlpha(s[i])
OptionMarkers == { <<"C">>, <<"P">>, <<"-", "C", "-">>, <<"-", "P", "-">> }

\* v is the prefix p in upper case.
UppercaseOf(p, v) ==
    /\ Len(v) = Len(p)
    /\ \A i \in DOMAIN p :
          \E k \in DOMAIN UpperLetters :
              /\ p[i] \in {UpperLetters[k], LowerLetters[k]}
              /\ v[i] = UpperLetters[k]

\* The prefix p written in upper case.
InUpperCase(p) ==
    [i \in DOMAIN p |->
        UpperLetters[CHOOSE k \in DOMAIN UpperLetters :
                        p[i] \in {UpperLetters[k], LowerLetters[k]}]]

\* The symbol s is (letters p)(four digits), nothing after.
IsFutureSymbol(s, p) ==
    /\ Len(s) = Len(p) + 4
    /\ SubSeq(s, 1, Len(p)) = p
    /\ AllDigits(SubSeq(s, Len(p) + 1, Len(p) + 4))

\* The symbol s is (n leading characters)(marker)(at least one character).
HasMarkerAfter(s, n) ==
    \E m \in OptionMarkers :
        /\ Len(s) >= n + Len(m) + 1
        /\ SubSeq(s, n + 1, n + Len(m)) = m

\* The results the claim allows for the code: <<type, variety>> for an
\* exchange, by the patterns of that exchange.
AllowedParses(exchange, s) ==
    IF exchange = "CFFEX"
    THEN { <<Future, p>> : p \in { q \in {<<"I", "F">>, <<"I", "C">>, <<"I", "M">>, <<"I", "H">>} :
                                     IsFutureSymbol(s, q) } }
         \cup
         { <<Option, p>> : p \in { q \in {<<"I", "O">>, <<"M", "O">>, <<"H", "O">>} :
                                     /\ Len(s) >= 7
                                     /\ SubSeq(s, 1, 2) = q
                                     /\ AllDigits(SubSeq(s, 3, 6)) } }
    ELSE IF exchange \in {"SSE", "SZSE"}
    THEN IF \/ Len(s) = 8 /\ AllDigits(s)
            \/ Len(s) >= 6 /\ AllDigits(SubSeq(s, 1, 6)) /\ HasMarkerAfter(s, 6)
         THEN { <<Option, <<"E", "T", "F">> >> }
         ELSE {}
    ELSE { <<Future, InUpperCase(SubSeq(s, 1, k))>> :
              k \in { j \in 1..Len(s) : /\ AllLetters(SubSeq(s, 1, j))
                                         /\ IsFutureSymbol(s, SubSeq(s, 1, j)) } }
         \cup
         { <<Option, InUpperCase(SubSeq(s, 1, k))>> :
              k \in { j \in 1..Len(s) : /\ AllLetters(SubSeq(s, 1, j))
                                         /\ Len(s) >= j + 4
                                         /\ AllDigits(SubSeq(s, j + 1, j + 4))
                                         /\ HasMarkerAfter(s, j + 4) } }

\* The exchanges whose alias the code ends with.
ExchangesOfAlias ==
    { ExchangeAliases[k].exchange :
        k \in { j \in DOMAIN ExchangeAliases : ExchangeAliases[j].alias = AliasOfCode } }

C17_FailureCases ==
    pc = "parsed" =>
        /\ Cardinality(DotsOfCode) # 1 => ~parse.result.ok
        /\ (Cardinality(DotsOfCode) = 1 /\ ExchangesOfAlias = {}) => ~parse.result.ok
        /\ parse.code = <<"I", "F", "2", "4", "0", "1", ".", "D", "C", "E">> => parse.result.ok
        /\ parse.code = <<"I", "O", "2", "4", "0", "1", ".", "C", "F", "E">> => ~parse.result.ok
        /\ parse.code = <<"M", "2", "4", "0", ".", "C", "Z", "C">> => ~parse.result.ok

\* The legs of the normalized table on one side of a code.
LegsOfSide(code, side) ==
    { i \in DOMAIN holding : holding[i].code = code /\ holding[i].long_short = side }

Abs(n) == IF n < 0 THEN 0 - n ELSE n

\* C18: normalization turns each raw position into one long leg if its
\* gross long quantity is non-zero and one short leg if its gross short
\* quantity is non-zero, and into nothing else; a short leg's quantity is
\* the absolute value of the gross short quantity; every leg's quantity is
\* strictly positive and its code_dir is the code followed by L or S.
C18_Splitting ==
    pc = "normalized" =>
        /\ \A r \in DOMAIN raw :
              /\ Cardinality(LegsOfSide(raw[r].code, "long"))
                    = IF raw[r].long_qty # 0 THEN 1 ELSE 0
              /\ Cardinality(LegsOfSide(raw[r].code, "short"))
                    = IF raw[r].short_qty # 0 THEN 1 ELSE 0
              /\ \A i \in LegsOfSide(raw[r].code, "long") :
                    /\ holding[i].quantity = raw[r].long_qty
                    /\ holding[i].code_dir = <<raw[r].code, "L">>
              /\ \A i \in LegsOfSide(raw[r].code, "short") :
                    /\ holding[i].quantity = Abs(raw[r].short_qty)
                    /\ holding[i].code_dir = <<raw[r].code, "S">>
        /\ \A i \in DOMAIN holding :
              /\ holding[i].quantity > 0
              /\ \E r \in DOMAIN raw : raw[r].code = holding[i].code

\* A position held long 1 and short 2 has been split into a long leg of 1
\* and a short leg of 2, next to a position held on one side only.
C18_Witness ==
    /\ pc = "normalized"
    /\ \E r \in DOMAIN raw :
          /\ raw[r].long_qty = 1 /\ raw[r].short_qty = -2
          /\ \E i \in LegsOfSide(raw[r].code, "short") : holding[i].quantity = 2
          /\ \E i \in LegsOfSide(raw[r].code, "long") : holding[i].quantity = 1
    /\ \E r \in DOMAIN raw :
          /\ raw[r].long_qty = 0
          /\ LegsOfSide(raw[r].code, "long") = {}

\* Scenario S6: one long RB2401.DCE leg, quantity 1.
S6_Raw == << [code |-> "RB2401.DCE", long_qty |-> 1, short_qty |-> 0] >>

\* The S6 leg is under stress: close 4000, multiplier 10, margin ratio 0.08.
S6_Stressed ==
    /\ raw = S6_Raw
    /\ stress.ran
    /\ Len(holding) = 1
    /\ holding[1].long_short = "long" /\ holding[1].quantity = 1
    /\ holding[1].exchange = "DCE" /\ holding[1].type = Future
    /\ holding[1].close_price = 4000000
    /\ holding[1].multiplier = 10
    /\ holding[1].margin_ratio = 8

\* The scenario row of the shock r.
ScenarioRow(r) ==
    stress.scenario[CHOOSE k \in DOMAIN stress.scenario : stress.scenario[k].r = r]

\* C20: in scenario S6 the shock r = -0.05 gives price 3800, pnl -2000 and
\* margin 3040, hence risk_ratio = 3040 / (equity - 2000) and
\* supplement = max(3040 / 0.95 - (equity - 2000), 0).
C20_S6 ==
    S6_Stressed =>
        /\ calc_pnl_margin_r(holding[1], <<-5>>)[1].price = 3800000
        /\ ScenarioRow(-5).pnl = -2000
        /\ ScenarioRow(-5).margin = 3040
        /\ ScenarioRow(-5).risk_ratio = <<3040, stress.equity - 2000>>
        /\ ScenarioRow(-5).supplement =
              Max2(100 * 3040 - 95 * (stress.equity - 2000), 0)

\* What run() gives in scenario S6: the price move -200 times the signed
\* quantity 1, with no multiplier, so pnl -200 and the ratio and the
\* supplement on equity - 200.
C20_PnlWithoutMultiplier ==
    S6_Stressed =>
        /\ calc_pnl_margin_r(holding[1], <<-5>>)[1].price = 3800000
        /\ ScenarioRow(-5).pnl = -200
        /\ ScenarioRow(-5).margin = 3040
        /\ ScenarioRow(-5).risk_ratio = <<3040, stress.equity - 200>>
        /\ ScenarioRow(-5).supplement =
              Max2(100 * 3040 - 95 * (stress.equity - 200), 0)

\* S6 under stress with an equity that needs a supplement.
C20_Reached == S6_Stressed /\ ScenarioRow(-5).supplement > 0

\* The normalized table: what process() made of the raw holdings.
Normalized == process(raw)

\* C19: after normalization the legs are immutable inputs.  Whatever
\* MarginOptimizer.run (its CFFEX and SHFE netting branches included) and
\* MarginStressTestCombined.run have done, every leg of the normalized
\* table has the quantity, margin and total_margin normalization gave it;
\* so the stress engine's results are those on the normalized table whether
\* it runs before or after the optimizer, and so are the optimizer's.
C19_LegsImmutable ==
    (pc \in {"normalized", "running", "done", "TypeError"} /\ holding # <<>>) =>
        LET normalized == Normalized
        IN  /\ Len(holding) = Len(normalized)
            /\ \A i \in DOMAIN holding :
                  /\ holding[i].code_dir = normalized[i].code_dir
                  /\ holding[i].quantity = normalized[i].quantity
                  /\ holding[i].margin = normalized[i].margin
                  /\ holding[i].total_margin = normalized[i].total_margin
            /\ stress.ran =>
                  stress = MarginStressTestCombined_run(normalized, stress.equity, stress.seed)
            /\ \A g \in DOMAIN reports :
                  reports[g] \in process_each_account(
                      reports[g].exchange, GroupOf(normalized, reports[g].exchange),
                      is_close)

\* Both have run, and a netting branch of the optimizer has set to 0, in
\* its copy of the group, the margin of a leg that has a margin in the
\* normalized table.
C19_Witness ==
    /\ pc = "done"
    /\ stress.ran /\ stress.error = ""
    /\ \E g \in DOMAIN reports :
          /\ reports[g].exchange \in {"CFFEX", "SHFE"}
          /\ \E j \in DOMAIN reports[g].legs :
                /\ reports[g].legs[j].margin = 0
                /\ \E i \in DOMAIN holding :
                      /\ holding[i].code_dir = reports[g].legs[j].code_dir
                      /\ holding[i].margin > 0

\* The margin of section 4.3 of a short option per unit of the underlying,
\* in 1/100000 yuan: otm is max(strike - udl, 0) for a call and
\* max(udl - strike, 0) for a put.
Section43Amount(pos) ==
    LET udl == pos.udl_price
        strike == pos.strike_price
        r == pos.margin_ratio
        otm == 100 * (IF pos.call_put = "call"
                      THEN (IF strike > udl THEN strike - udl ELSE 0)
                      ELSE (IF udl > strike THEN udl - strike ELSE 0))
        Larger(a, b) == IF a >= b THEN a ELSE b
        Smaller(a, b) == IF a >= b THEN b ELSE a
    IN  CASE pos.exchange \in {"SSE", "SZSE"} /\ pos.call_put = "call" ->
                100 * pos.close_price + Larger(12 * udl - otm, 7 * udl)
          [] pos.exchange \in {"SSE", "SZSE"} /\ pos.call_put = "put" ->
                Smaller(100 * pos.close_price + Larger(12 * udl - otm, 7 * strike),
                        100 * strike)
          [] pos.exchange = "CFFEX" /\ pos.call_put = "call" ->
                100 * pos.close_price + Larger(udl * r - otm, (udl * r) \div 2)
          [] pos.exchange = "CFFEX" /\ pos.call_put = "put" ->
                100 * pos.close_price + Larger(udl * r - otm, (strike * r) \div 2)
          [] pos.exchange \in {"SHFE", "CZCE", "DCE", "GFEX"} ->
                100 * pos.close_price + udl * r - Smaller(otm, udl * r) \div 2

\* The per-unit margin m, in yuan, is that of section 4.3 for the leg.
IsSection43Margin(pos, m) ==
    IF pos.type = Future
    THEN 100 * m = (pos.close_price \div 1000) * pos.multiplier * pos.margin_ratio
    ELSE IF pos.long_short = "long" THEN m = 0
    ELSE /\ Section43Amount(pos) % 10 = 0
         /\ 10000 * m = (Section43Amount(pos) \div 10) * pos.multiplier

\* C24: MarginCalculator.calc returns the per-unit margin of section 4.3
\* for every leg: close_price * multiplier * margin_ratio for a future, 0
\* for a long option, and for a short option the formula of its exchange
\* (SSE / SZSE with the put capped at multiplier * strike, CFFEX with the
\* minimum safety factor 0.5, or the commodity formula).
C24_Section43 ==
    (pc = "leg" /\ calc.calculated) =>
        /\ calc.margin.error = ""
        /\ IsSection43Margin(calc.pos, calc.margin.margin)

\* A short SSE put whose margin is the cap multiplier * strike, below the
\* uncapped amount.
C24_Witness ==
    /\ pc = "leg" /\ calc.calculated
    /\ calc.pos.exchange = "SSE" /\ calc.pos.call_put = "put"
    /\ calc.pos.long_short = "short"
    /\ 1000 * calc.margin.margin = calc.pos.multiplier * calc.pos.strike_price
    /\ calc.pos.close_price + (7 * calc.pos.strike_price) \div 100 > calc.pos.strike_price

\* price is close_price + ds * delta + 0.5 * ds**2 * gamma for the move ds
\* of the underlying: the equation times 200 (ds a multiple of 1000) or
\* times 20000 (ds a multiple of 10).
IsDeltaGammaPrice(pos, ds, price) ==
    IF ds % 1000 = 0
    THEN 200 * (price - pos.close_price)
            = 2 * ds * pos.delta + 100 * (ds \div 1000) * (ds \div 1000) * pos.gamma
    ELSE /\ ds % 10 = 0
         /\ 20000 * (price - pos.close_price)
               = 200 * ds * pos.delta + (ds \div 10) * (ds \div 10) * pos.gamma

\* The cell is the revaluation of the leg under the shock r, its margin
\* the scalar formula on the shocked inputs of this cell.
IsRevaluedAt(pos, r, cell) ==
    LET qty_dir == IF pos.long_short = "long" THEN pos.quantity ELSE 0 - pos.quantity
    IN  /\ cell.pnl = (cell.price - pos.close_price) * qty_dir
        /\ IF pos.type = Future
           THEN /\ pos.close_price % 100 = 0
                /\ cell.price - pos.close_price = (pos.close_price \div 100) * r
                /\ cell.margin
                     = MarginCalculator_calc([pos EXCEPT !.close_price = cell.price]).margin
                         * pos.quantity
           ELSE \E s \in {pos.udl_price + (pos.udl_price \div 100) * r} :
                   /\ pos.udl_price % 100 = 0
                   /\ IsDeltaGammaPrice(pos, s - pos.udl_price, cell.price)
                   /\ cell.margin
                        = MarginCalculator_calc([pos EXCEPT !.udl_price = s,
                                                            !.close_price = cell.price]).margin
                            * pos.quantity

\* C25: under a shock r a future gets price = close * (1 + r) and margin =
\* margin_future(price) * qty; an option gets s = udl * (1 + r), price =
\* close + (s - udl) * delta + 0.5 * (s - udl)^2 * gamma and margin =
\* margin_option(s, price) * qty; pnl = (price - close) * qty_dir with
\* qty_dir = +qty for a long leg and -qty for a short leg; the margin of
\* every cell is the scalar formula on that cell's shocked inputs only.
C25_Revaluation ==
    (pc = "leg" /\ calc.revalued) =>
        /\ DOMAIN calc.cells = DOMAIN scenarios_r
        /\ \A k \in DOMAIN scenarios_r :
              IsRevaluedAt(calc.pos, scenarios_r[k], calc.cells[k])

\* A short option whose price moves with delta and gamma, and whose margin
\* differs between the cells of the lowest and the highest shock and from
\* the margin at the quote.
C25_Witness ==
    /\ pc = "leg" /\ calc.revalued /\ calc.calculated
    /\ calc.pos.type = Option /\ calc.pos.long_short = "short"
    /\ 100 * (calc.cells[11].price - calc.pos.close_price)
          # ((5 * calc.pos.udl_price) \div 100) * calc.pos.delta
    /\ calc.cells[1].margin # calc.cells[11].margin
    /\ calc.cells[1].margin # calc.margin.margin * calc.pos.quantity
    /\ calc.cells[6].margin = calc.margin.margin * calc.pos.quantity

\* Leg i of the account revalued under the single shock r.
LegAt(i, r) == calc_pnl_margin_r(holding[i], <<r>>)[1]

\* The account's aggregated pnl, in yuan, when every leg is under the shock
\* of its entry in r_legs.
AccountPnl(r_legs) ==
    SumSeq([i \in DOMAIN holding |-> LegAt(i, r_legs[i]).pnl]) \div 1000

\* The account's netted margin when every leg is under the shock of its
\* entry in r_legs.
AccountMargin(r_legs) ==
    calc_larger_side_margin_vec(holding,
                                [i \in DOMAIN holding |-> LegAt(i, r_legs[i]).margin])

\* Every leg of the account under the same shock r.
AllAt(r) == [i \in DOMAIN holding |-> r]

\* C21: for every shock r of the grid, every leg of the account is
\* revalued at that same r, and the scenario engine reports risk_ratio =
\* margin / (equity + pnl) and supplement = max(margin / target_risk_ratio
\* - (equity + pnl), 0) with the account's aggregated pnl and netted
\* margin; the supplement is never negative.
C21_ScenarioRows ==
    (stress.ran /\ stress.error = "") =>
        /\ DOMAIN stress.scenario = DOMAIN scenarios_r
        /\ \A k \in DOMAIN scenarios_r :
              LET row == stress.scenario[k]
                  margin == AccountMargin(AllAt(scenarios_r[k]))
                  shocked_equity == stress.equity + AccountPnl(AllAt(scenarios_r[k]))
              IN  /\ row.r = scenarios_r[k]
                  /\ row.risk_ratio = <<margin, shocked_equity>>
                  /\ row.supplement =
                        (IF 100 * margin > target_risk_ratio * shocked_equity
                         THEN 100 * margin - target_risk_ratio * shocked_equity
                         ELSE 0)
                  /\ row.supplement >= 0

\* An account of several legs whose pnl moves with the shock, with a
\* supplement due under one shock and none under another.
C21_Witness ==
    /\ stress.ran /\ stress.error = ""
    /\ Len(holding) >= 2
    /\ \E i, j \in DOMAIN holding : holding[i].long_short # holding[j].long_short
    /\ \E k \in DOMAIN stress.scenario : stress.scenario[k].supplement > 0
    /\ \E k \in DOMAIN stress.scenario :
          /\ stress.scenario[k].supplement = 0
          /\ stress.scenario[k].pnl # 0
          /\ stress.scenario[k].margin > 0

\* The return of each leg's own underlying at a step of the simulated path.
PathAt(step) ==
    [i \in DOMAIN holding |-> gen_path(stress.seed)[step][udl_of(holding[i])]]

\* The deposits scheduled up to a step, that step included.
DepositedBy(step) == SumSeq([k \in 1..step |-> supplement_plan[k]])

\* C22: in the VaR engine, at every step of a path, equity_path = equity +
\* pnl_account + the sum of supplement[k] for k <= step (a deposit of an
\* earlier step still counts at every later step), and risk_ratio =
\* margin_account / equity_path.
C22_EquityPath ==
    (stress.ran /\ stress.error = "") =>
        /\ DOMAIN stress.VaR = 1..n_step
        /\ \A step \in 1..n_step :
              stress.VaR[step] =
                  << AccountMargin(PathAt(step)),
                     stress.equity + AccountPnl(PathAt(step)) + DepositedBy(step) >>

\* An account whose legs follow different underlyings, with a pnl at the
\* last step, where the equity counts the deposits of both steps.
C22_Witness ==
    /\ stress.ran /\ stress.error = ""
    /\ \E i, j \in DOMAIN holding : PathAt(1)[i] # PathAt(1)[j]
    /\ AccountPnl(PathAt(n_step)) # 0
    /\ stress.VaR[1][1] # stress.VaR[n_step][1]
    /\ stress.VaR[n_step][2]
          = stress.equity + AccountPnl(PathAt(n_step))
              + supplement_plan[1] + supplement_plan[n_step]
    /\ supplement_plan[1] > 0

\* The aggregate margin of the futures legs of one side and of the given
\* varieties, every leg under the shock of its entry in r_legs.
SideMargin(r_legs, side, varieties) ==
    SumSeq([i \in DOMAIN holding |->
               IF /\ holding[i].type = Future
                  /\ holding[i].long_short = side
                  /\ holding[i].variety \in varieties
               THEN LegAt(i, r_legs[i]).margin ELSE 0])

\* The varieties of the account's futures legs.
FutureVarieties == { holding[i].variety : i \in { j \in DOMAIN holding : holding[j].type = Future } }

\* The smaller of the long-side and short-side futures margins, summed over
\* the given groups of varieties.
SmallerSides(r_legs, variety_groups) ==
    LET acc[G \in SUBSET variety_groups] ==
            IF G = {} THEN 0
            ELSE LET g == CHOOSE g \in G : TRUE
                     long == SideMargin(r_legs, "long", g)
                     short == SideMargin(r_legs, "short", g)
                 IN  (IF long <= short THEN long ELSE short) + acc[G \ {g}]
    IN  acc[variety_groups]

\* The account margin of a cell under single-side netting: the sum of all
\* legs' shocked margins minus the smaller side, per variety on SHFE and
\* across all futures legs on CFFEX; the plain sum on every other exchange.
\* The account's exchange is that of its first leg.
NettedInCell(r_legs) ==
    SumSeq([i \in DOMAIN holding |-> LegAt(i, r_legs[i]).margin])
      - (CASE holding[1].exchange = "CFFEX" -> SmallerSides(r_legs, {FutureVarieties})
           [] holding[1].exchange = "SHFE" ->
                 SmallerSides(r_legs, { {v} : v \in FutureVarieties })
           [] OTHER -> 0)

\* C23: the stress aggregation applies single-side netting per cell: for a
\* CFFEX or SHFE account the account margin of each cell is the sum of all
\* legs' shocked margins minus the smaller of the long-side and short-side
\* aggregate futures margin of that same cell (per variety for SHFE, across
\* all futures legs for CFFEX); for every other exchange it is the plain
\* sum.
C23_NettingPerCell ==
    (stress.ran /\ stress.error = "") =>
        /\ \A k \in DOMAIN stress.scenario :
              stress.scenario[k].margin = NettedInCell(AllAt(scenarios_r[k]))
        /\ \A step \in DOMAIN stress.VaR :
              stress.VaR[step][1] = NettedInCell(PathAt(step))

\* The long side of a CFFEX account.
LongSide(r_legs) == SideMargin(r_legs, "long", FutureVarieties)
\* The short side of a CFFEX account.
ShortSide(r_legs) == SideMargin(r_legs, "short", FutureVarieties)

\* A CFFEX account whose kept side differs between two cells: the short
\* side is the larger at the first step of the path and the long side at
\* the second.
C23_Witness ==
    /\ stress.ran /\ stress.error = ""
    /\ holding[1].exchange = "CFFEX"
    /\ 0 < LongSide(PathAt(1)) /\ LongSide(PathAt(1)) < ShortSide(PathAt(1))
    /\ LongSide(PathAt(2)) > ShortSide(PathAt(2)) /\ ShortSide(PathAt(2)) > 0
    /\ stress.VaR[1][1] < SumSeq([i \in DOMAIN holding |-> LegAt(i, PathAt(1)[i]).margin])

\* The sum of total_margin over the legs of the normalized table, that is
\* after process_larger_side_margin.
StaticMargin == SumSeq([i \in DOMAIN holding |-> holding[i].total_margin])

\* C29: static and per-scenario netting agree at zero shock: the account
\* margin the stress engine computes at r = 0 (each leg's margin recomputed
\* from its market data, then calc_larger_side_margin_vec) equals the sum
\* of total_margin over the account's legs after process_larger_side_margin,
\* also on ties, for accounts with one side only and for accounts holding
\* legs of several exchanges.
C29_ZeroShockAgrees ==
    (stress.ran /\ stress.error = "") =>
        /\ ScenarioRow(0).margin = StaticMargin
        /\ ScenarioRow(0).pnl = 0

\* The futures legs of one variety and one side.
LegsOn(variety, side) ==
    { i \in DOMAIN holding : /\ holding[i].type = Future
                             /\ holding[i].variety = variety
                             /\ holding[i].long_short = side }

\* An account netted as SHFE that also holds a leg of another exchange,
\* with an exact tie of the two sides in one variety (its short leg is
\* zeroed) and a variety held on one side only.
C29_Witness ==
    /\ stress.ran /\ stress.error = ""
    /\ holding[1].exchange = "SHFE"
    /\ \E i \in DOMAIN holding : holding[i].exchange # "SHFE"
    /\ \E v \in FutureVarieties :
          /\ LegsOn(v, "long") # {} /\ LegsOn(v, "short") # {}
          /\ SideMargin(AllAt(0), "long", {v}) = SideMargin(AllAt(0), "short", {v})
          /\ \A i \in LegsOn(v, "short") : holding[i].total_margin = 0
          /\ \A i \in LegsOn(v, "long") : holding[i].total_margin > 0
    /\ \E v \in FutureVarieties : LegsOn(v, "long") = {} \/ LegsOn(v, "short") = {}
    /\ StaticMargin > 0

\* With the deposit d, in 1 / target_risk_ratio of a yuan, the account of
\* the scenario row is within the target: margin / (equity + pnl + deposit)
\* <= target_risk_ratio, both sides times 100 * (equity + pnl + deposit),
\* which is positive when the margin is.
WithinTarget(row, d) ==
    100 * row.margin <= target_risk_ratio * (stress.equity + row.pnl) + d

AutoHedgingPair ==
    /\ pc = "analyzed"
    /\ is_close
    /\ pair.pos1.type = Option /\ pair.pos2.type = Option
    /\ pair.pos1.exchange \in {"SSE", "SZSE"}
    /\ pair.pos1.code = pair.pos2.code
    /\ pair.pos1.long_short # pair.pos2.long_short

\* C26: when is_close is true, an SSE / SZSE pair of opposite-side legs of
\* the same option code is classified AutoHedging, its combined margin is
\* 0 and its margin_saving is pos1.margin + pos2.margin - 10, the fixed
\* penalty 10 being subtracted from the saving.
C26_AutoHedgingPenalty ==
    AutoHedgingPair =>
        /\ pair.analysis.type = "AutoHedging"
        /\ pair.analysis.margin = 0
        /\ pair.analysis.margin_saving = pair.pos1.margin + pair.pos2.margin - 10

\* What the analyzer gives for such a pair: AutoHedging with combined
\* margin 0 and the saving pos1.margin + pos2.margin, nothing subtracted.
C26_SavingWithoutPenalty ==
    AutoHedgingPair =>
        /\ pair.analysis.type = "AutoHedging"
        /\ pair.analysis.margin = 0
        /\ pair.analysis.margin_saving = pair.pos1.margin + pair.pos2.margin

\* An AutoHedging pair has been analysed, its short leg with a margin.
C26_Reached ==
    /\ AutoHedgingPair
    /\ pair.analysis.type = "AutoHedging"
    /\ pair.pos1.margin + pair.pos2.margin > 10

\* The pair analysed is a BearCallSpread or a BullPutSpread.
SpreadAnalysed ==
    /\ pc = "analyzed"
    /\ pair.analysis.type \in {"BearCallSpread", "BullPutSpread"}

\* The long leg (pos1) and the short leg (pos2) of the spread analysed.
SpreadLong == IF pair.pos1.long_short = "long" THEN pair.pos1 ELSE pair.pos2
SpreadShort == IF pair.pos1.long_short = "long" THEN pair.pos2 ELSE pair.pos1

\* |K1 - K2| * multiplier of the spread analysed, in yuan.
StrikeDifference ==
    IF pair.analysis.type = "BearCallSpread"
    THEN ((SpreadLong.strike_price - SpreadShort.strike_price) * SpreadLong.multiplier) \div 1000
    ELSE ((SpreadShort.strike_price - SpreadLong.strike_price) * SpreadShort.multiplier) \div 1000

\* C27: on a commodity exchange (DCE, GFEX) the combined margin of a
\* BearCallSpread is min((K1 - K2) * multiplier, pos2.margin) and that of a
\* BullPutSpread min((K2 - K1) * multiplier, pos2.margin), so it never
\* exceeds the short leg's own margin; on SSE / SZSE it is the strike
\* difference times the multiplier.
C27_SpreadMargin ==
    SpreadAnalysed =>
        IF pair.pos1.exchange \in {"SSE", "SZSE"}
        THEN pair.analysis.margin = StrikeDifference
        ELSE /\ pair.analysis.margin =
                  (IF StrikeDifference <= SpreadShort.margin
                   THEN StrikeDifference ELSE SpreadShort.margin)
             /\ pair.analysis.margin <= SpreadShort.margin

\* What the analyzer gives on every exchange: the strike difference times
\* the multiplier.
C27_StrikeDifferenceOnly ==
    SpreadAnalysed => pair.analysis.margin = StrikeDifference

\* A spread of a commodity exchange whose strike difference times the
\* multiplier exceeds the margin of its short leg.
C27_Reached ==
    /\ SpreadAnalysed
    /\ pair.pos1.exchange \in {"DCE", "GFEX"}
    /\ StrikeDifference > SpreadShort.margin

\* The analysis of the pair taken in the other order.
Reversed == analyze(pair.pos2, pair.pos1, is_close)

\* C28: pair analysis is order-insensitive: analysing (a, b) and (b, a)
\* yields the same variant (or both none), the same normalized leg order,
\* the same combined margin and the same margin_saving.
C28_OrderInsensitive ==
    pc = "analyzed" =>
        LET reversed == Reversed
        IN  /\ pair.analysis.type = reversed.type
            /\ pair.analysis.pos1 = reversed.pos1
            /\ pair.analysis.pos2 = reversed.pos2
            /\ pair.analysis.margin = reversed.margin
            /\ pair.analysis.margin_saving = reversed.margin_saving

\* C28, amended: analysing (a, b) and (b, a) yields the same variant (or
\* both none), the same combined margin and the same margin_saving; the
\* leg order is the same for an options pair and for a future-option pair,
\* while a futures pair, whose normalization is the identity, keeps the
\* order it was given in.
C28_SameUpToFuturesOrder ==
    pc = "analyzed" =>
        LET reversed == Reversed
        IN  /\ pair.analysis.type = reversed.type
            /\ pair.analysis.margin = reversed.margin
            /\ pair.analysis.margin_saving = reversed.margin_saving
            /\ pair.analysis.type # "None" =>
                  IF FamilyOf(pair.pos1, pair.pos2) = "Futures"
                  THEN /\ pair.analysis.pos1 = pair.pos1.code_dir
                       /\ pair.analysis.pos2 = pair.pos2.code_dir
                       /\ reversed.pos1 = pair.pos2.code_dir
                       /\ reversed.pos2 = pair.pos1.code_dir
                  ELSE /\ pair.analysis.pos1 = reversed.pos1
                       /\ pair.analysis.pos2 = reversed.pos2

\* An options pair given with its short leg first forms a strategy with a
\* positive saving, its legs swapped by the normalization.
C28_Witness ==
    /\ pc = "analyzed"
    /\ FamilyOf(pair.pos1, pair.pos2) = "Options"
    /\ pair.pos1.long_short = "short" /\ pair.pos2.long_short = "long"
    /\ pair.analysis.type # "None"
    /\ pair.analysis.pos1 = pair.pos2.code_dir
    /\ pair.analysis.margin_saving > 0

====
